---- MODULE Spec2Model ----
(***************************************************************************)
(* Model of the network-intelligence MCP server's event ingester           *)
(* (class NetworkCapture): the in-flight map, the finalized store with its *)
(* eviction queue, the asynchronous response-body fetches and clear().     *)
(*                                                                         *)
(* JavaScript objects are modelled by a heap: `heap` maps an object        *)
(* reference to the fields of one pending entry together with its          *)
(* entry.request object.  The in-flight map, the store and the closures of *)
(* the outstanding body fetches hold references, so that a write through   *)
(* one of them is seen through the others, as in the program.              *)
(***************************************************************************)
EXTENDS Integers, Sequences, FiniteSets, Bags, TLC

\* ------------------------------------------------------------------ bounds
\* number of CDP events delivered in one behaviour of Spec
MaxClock == 4
\* number of CDP events delivered in one behaviour of SpecRedirect
MaxClockRedirect == 4
\* number of CDP events delivered in one behaviour of SpecPair
MaxClockPair == 6
\* number of CDP events delivered in one behaviour of SpecPreflight
MaxClockPreflight == 5
\* number of CDP events delivered in one behaviour of SpecCallback
MaxClockCallback == 4
\* number of CDP events delivered in one behaviour of SpecMime
MaxClockMime == 5
\* number of CDP events delivered in one behaviour of SpecOffset
MaxClockOffset == 4
\* number of CDP events delivered in one behaviour of SpecUnknown
MaxClockUnknown == 4
\* number of requests created in one behaviour of SpecRing
MaxRingRequests == 4
\* number of body fetches outstanding at a time in SpecRing
MaxRingFetches == 1
\* number of actions recorded in one behaviour of SpecCorrelate, SpecStack,
\* SpecChain and SpecAttribute
MaxActions == 2
\* number of request objects supplied to the correlator in SpecAttribute
MaxSupplied == 2
\* number of requests in a group given to detectChains in SpecAuthFlow
MaxGroup == 3
\* SpecQuiet: the largest in-flight count, and the steps of the clock a timer
\* can be late by
MaxPendingCount == 1
MaxLate == 1
\* SpecWalk: the number of stack trace objects of a stack whose parent links
\* are arbitrary
MaxNodes == 2
MaxCalls == 2
MaxTicks == 2
\* the maxRequests option the capture is constructed with
MaxRequests == 2
\* the maxResponseBodySize option the capture is constructed with
MaxResponseBodySize == 2

\* --------------------------------------------------------------- optionals
\* an absent (undefined / null) value and a present one
None == <<>>
Some(v) == <<v>>
IsSome(o) == o # <<>>
Get(o) == o[1]

\* ------------------------------------------------------- JavaScript Map
\* A Map is the sequence of its entries in insertion order.
MapKeys(m) == {m[i].k : i \in 1..Len(m)}
MapVals(m) == {m[i].v : i \in 1..Len(m)}
MapHas(m, key) == \E i \in 1..Len(m) : m[i].k = key
MapGet(m, key) == (CHOOSE e \in {m[i] : i \in 1..Len(m)} : e.k = key).v
\* set() on a present key replaces the value and keeps the entry's position
MapSet(m, key, val) ==
    IF MapHas(m, key)
    THEN [i \in 1..Len(m) |-> IF m[i].k = key THEN [k |-> key, v |-> val] ELSE m[i]]
    ELSE Append(m, [k |-> key, v |-> val])
MapDelete(m, key) == SelectSeq(m, LAMBDA e : e.k # key)

\* ------------------------------------------------------------------- state
VARIABLES
    requests,         \* Map<string, CapturedRequest>: id -> reference
    requestOrder,     \* string[]: the eviction queue
    nextIndex,        \* the index handed to the next new request
    timestampOffset,  \* None, or Some(wallTime - timestamp) of the first event
    pending,          \* Map<string, entry>: id -> reference
    heap,             \* reference -> the fields of the entry and its request,
                      \* with two history fields: hops, the redirects recorded
                      \* for it, and fired, the onRequestComplete calls made
                      \* with it
    nextRef,          \* the reference given to the next allocated object
    fetches,          \* bag of the closures of the outstanding body fetches
    clock,            \* the event source's monotonic clock, in seconds
    staleRefs,        \* history: the objects that were alive at a clear()
    redirectsSeen,    \* history, kept by SpecRedirect: id -> the number of
                      \* redirect-bearing request-sent events delivered
    lastEvicted,      \* history: the ID last shifted off requestOrder, and the
                      \* index of the record the store lost with it (-1: none)
    actions,          \* Correlator.actions: TrackedAction[]
    correlation,      \* None, or the last call of Correlator.correlateRequest,
                      \* correlateAction or correlateAll: its arguments, the
                      \* actions recorded (and the objects as they were) when
                      \* it was made, and what it returned
    options,          \* Correlator.options: Required<CorrelationOptions>
    driver,           \* the BrowserManager's wait for network quiescence: the
                      \* readings of Date.now() and of capture.pendingCount,
                      \* the locals of the waitForNetworkQuiet call (None
                      \* before it), and one history field: busyAt, the last
                      \* reading of the clock at which the count was not zero
    walk,             \* None, or a call of Correlator.extractEventOrigin: the
                      \* stack it was given, its locals current and depth, and
                      \* what it returned once it has returned
    manager           \* BrowserManager.actionCounter, and the navigate, click
                      \* and type calls made: the tool, the ID of the action
                      \* the call created, its pre-action reading of
                      \* Date.now(), and once it has returned its result
                      \* and one history field: resultFor, the call that
                      \* created the action object the result holds

vars == <<requests, requestOrder, nextIndex, timestampOffset, pending, heap,
          nextRef, fetches, clock, staleRefs, redirectsSeen, lastEvicted,
          actions, correlation, options, driver, walk, manager>>

\* the state of the NetworkCapture and the state of the Correlator
captureVars == <<requests, requestOrder, nextIndex, timestampOffset, pending, heap,
                 nextRef, fetches, clock, staleRefs, redirectsSeen, lastEvicted>>
correlatorVars == <<actions, correlation, options>>
\* the calls in progress
callVars == <<driver, walk, manager>>

\* ------------------------------------------------------------- event inputs
Ids == {"r1", "r2"}
RingIds == {"r1", "r2", "r3"}

\* the excludePatterns option: the URLs some pattern matches
ExcludedUrls == {"/track"}

\* request.url, request.method, request.headers, request.postData and the
\* event's resource type
RequestShapes ==
    { [url |-> "/old", method |-> "GET", headers |-> "h-get", postData |-> None,
       type |-> Some("Fetch")],
      [url |-> "/new", method |-> "POST", headers |-> "h-post", postData |-> Some("form"),
       type |-> Some("XHR")],
      [url |-> "/track", method |-> "GET", headers |-> "h-get", postData |-> None,
       type |-> None] }

RedirectResponses == { None, Some([status |-> 301, headers |-> "h-loc"]) }

Initiators(ids) ==
    { [type |-> "script", requestId |-> None] }
      \cup { [type |-> "preflight", requestId |-> Some(t)] : t \in ids }

\* the wall clock of the event source, in seconds, at monotonic time t
WallTimeAt(t) == t + 100

RequestWillBeSentEvents(ids, shapes, redirects, initiators, t) ==
    { [requestId |-> id, request |-> rq, redirectResponse |-> rd, initiator |-> ini,
       wallTime |-> WallTimeAt(t), timestamp |-> t] :
         id \in ids, rq \in shapes, rd \in redirects, ini \in initiators }

ResponseShapes ==
    { [status |-> 200, statusText |-> "OK", headers |-> "h-json",
       mimeType |-> "application/json", type |-> None],
      [status |-> 404, statusText |-> "Not Found", headers |-> "h-png",
       mimeType |-> "image/png", type |-> Some("Image")] }

ResponseReceivedEvents(ids, shapes, t) ==
    { [requestId |-> id, response |-> rs, timestamp |-> t] : id \in ids, rs \in shapes }

LoadingFinishedEvents(ids, t) ==
    { [requestId |-> id, timestamp |-> t, encodedDataLength |-> 100] : id \in ids }

LoadingFailedEvents(ids, t) ==
    { [requestId |-> id, errorText |-> "net::ERR_FAILED", timestamp |-> t] : id \in ids }

\* the filters getRequests is called with: none, or a NetworkFilter whose
\* criteria are absent or one of a few values, with a limit of 0 to 3 or none
NoCriteria ==
    [urlPattern |-> None, method |-> None, statusMin |-> None, statusMax |-> None,
     resourceType |-> None, sinceTimestamp |-> None]
Criteria ==
    { NoCriteria,
      [NoCriteria EXCEPT !.urlPattern = Some("OLD")],
      [NoCriteria EXCEPT !.urlPattern = Some("^/(new|track)$"), !.method = Some("post")],
      [NoCriteria EXCEPT !.method = Some("get")],
      [NoCriteria EXCEPT !.statusMin = Some(200), !.statusMax = Some(299)],
      [NoCriteria EXCEPT !.statusMin = Some(400)],
      [NoCriteria EXCEPT !.resourceType = Some("fetch")],
      [NoCriteria EXCEPT !.sinceTimestamp = Some(WallTimeAt(2) * 1000)] }
Limits == {None} \cup {Some(n) : n \in 0..3}
Filters ==
    {None} \cup
    { Some([urlPattern |-> c.urlPattern, method |-> c.method, statusMin |-> c.statusMin,
            statusMax |-> c.statusMax, resourceType |-> c.resourceType,
            sinceTimestamp |-> c.sinceTimestamp, limit |-> l]) :
        c \in Criteria, l \in Limits }

\* what a body fetch settles with: a rejection, null, or {body, base64Encoded}
FetchOutcomes ==
    { [kind |-> "reject"], [kind |-> "null"],
      [kind |-> "body", body |-> <<"a">>, base64Encoded |-> FALSE],
      [kind |-> "body", body |-> <<"a", "b", "c">>, base64Encoded |-> FALSE],
      [kind |-> "body", body |-> <<"a", "b", "c">>, base64Encoded |-> TRUE] }

\* ---------------------------------------------------------- pure functions
\* a shouldExclude that tests no pattern
shouldExcludeNothing(url) == FALSE

shouldExclude(url) == url \in ExcludedUrls

classifyResourceType(cdpType) ==
    IF cdpType = None THEN "other"
    ELSE CASE Get(cdpType) = "XHR" -> "xhr"
           [] Get(cdpType) = "Fetch" -> "fetch"
           [] Get(cdpType) = "Document" -> "document"
           [] Get(cdpType) = "Stylesheet" -> "stylesheet"
           [] Get(cdpType) = "Script" -> "script"
           [] Get(cdpType) = "Image" -> "image"
           [] Get(cdpType) = "Font" -> "font"
           [] Get(cdpType) = "WebSocket" -> "websocket"
           [] OTHER -> "other"

\* a projection that never adds the offset
toWallTimeMsRaw(offset, cdpTimestamp) == cdpTimestamp * 1000

toWallTimeMs(offset, cdpTimestamp) ==
    IF offset = None THEN cdpTimestamp * 1000
    ELSE (cdpTimestamp + Get(offset)) * 1000

\* mime.startsWith("image/") || "video/" || "audio/" || includes font / wasm
BinaryMimeTypes == {"image/png", "video/mp4", "audio/mpeg", "font/woff2", "application/wasm"}
\* a shouldFetchBody that only tests the three prefixes
shouldFetchBodyPrefixesOnly(request) ==
    request.mimeType \notin {"image/png", "video/mp4", "audio/mpeg"}

shouldFetchBody(request) == request.mimeType \notin BinaryMimeTypes

truncateBody(body, base64Encoded) ==
    IF base64Encoded
    THEN [kind |-> "base64", text |-> <<>>, chars |-> Len(body)]
    ELSE IF Len(body) > MaxResponseBodySize
    THEN [kind |-> "truncated", text |-> SubSeq(body, 1, MaxResponseBodySize),
          chars |-> Len(body)]
    ELSE [kind |-> "text", text |-> body, chars |-> Len(body)]

\* request.redirectChain as a reader of the record sees it: a fresh empty
\* array until handleLoadingFinished / handleLoadingFailed assign
\* entry.redirectChain (the same array object) to it
redirectChain(o) == IF o.chainCopied THEN o.entryChain ELSE <<>>

\* the pending entry and request object created for a new request
NewEntry(params, index) ==
    [ id |-> params.requestId,
      index |-> index,
      url |-> params.request.url,
      method |-> params.request.method,
      requestHeaders |-> params.request.headers,
      requestBody |-> params.request.postData,
      status |-> 0,
      statusText |-> "",
      responseHeaders |-> "h-none",
      mimeType |-> "",
      responseSize |-> 0,
      responseBody |-> None,
      resourceType |-> classifyResourceType(params.request.type),
      initiator |-> params.initiator,
      startTime |-> params.wallTime * 1000,
      responseTime |-> None,
      endTime |-> None,
      duration |-> None,
      entryChain |-> <<>>,
      chainCopied |-> FALSE,
      preflightFor |-> None,
      preflightRequestId |-> None,
      hops |-> 0,
      fired |-> 0 ]

\* ------------------------------------------------------------ query methods
size == Len(requests)
pendingCount == Len(pending)
getRequest(requestId) ==
    IF MapHas(requests, requestId) THEN Some(heap[MapGet(requests, requestId)]) ELSE None

\* String.prototype.toUpperCase on the method names that occur
toUpperCase(str) ==
    CASE str = "get" -> "GET"
      [] str = "post" -> "POST"
      [] OTHER -> str

\* new RegExp(urlPattern, "i").test(url) for the patterns that occur
RegExpTest(urlPattern, url) ==
    CASE urlPattern = "OLD" -> url = "/old"
      [] urlPattern = "^/(new|track)$" -> url \in {"/new", "/track"}
      [] OTHER -> FALSE

\* the predicate of applyFilter's requests.filter(...)
applyFilterAccepts(req, filter) ==
    /\ (IsSome(filter.urlPattern) /\ Get(filter.urlPattern) # "")
          => RegExpTest(Get(filter.urlPattern), req.url)
    /\ (IsSome(filter.method) /\ Get(filter.method) # "")
          => toUpperCase(req.method) = toUpperCase(Get(filter.method))
    /\ IsSome(filter.statusMin) => req.status >= Get(filter.statusMin)
    /\ IsSome(filter.statusMax) => req.status <= Get(filter.statusMax)
    /\ IsSome(filter.resourceType) => req.resourceType = Get(filter.resourceType)
    /\ IsSome(filter.sinceTimestamp) => req.startTime >= Get(filter.sinceTimestamp)

applyFilter(results, filter) ==
    SelectSeq(results, LAMBDA r : applyFilterAccepts(heap[r], filter))

\* results.sort((a, b) => a.index - b.index): Array.prototype.sort is stable
RECURSIVE sortByIndex(_)
sortByIndex(results) ==
    IF results = <<>> THEN <<>>
    ELSE LET rest == sortByIndex(Tail(results))
             x == Head(results)
             before == SelectSeq(rest, LAMBDA r : heap[r].index < heap[x].index)
             after == SelectSeq(rest, LAMBDA r : heap[r].index >= heap[x].index)
         IN  before \o <<x>> \o after

\* getRequests(filter?): the references of the records returned, in order;
\* `filter?.limit && ...` takes a limit of 0 as no limit
getRequests(filter) ==
    LET values == [i \in 1..Len(requests) |-> requests[i].v]
        filtered == IF IsSome(filter) THEN applyFilter(values, Get(filter)) ELSE values
        sorted == sortByIndex(filtered)
    IN  IF IsSome(filter) /\ IsSome(Get(filter).limit) /\ Get(Get(filter).limit) # 0
           /\ Len(sorted) > Get(Get(filter).limit)
        THEN SubSeq(sorted, 1, Get(Get(filter).limit))
        ELSE sorted

\* ------------------------------------------------------------------- heap
\* the objects some part of the program can still reach
Reachable(req, pend, fts) ==
    MapVals(req) \cup MapVals(pend) \cup {f.ref : f \in BagToSet(fts)}
Collect(h, req, pend, fts) ==
    [r \in (DOMAIN h) \cap Reachable(req, pend, fts) |-> h[r]]

\* the defaults of the correlator's options and the constructor's merge
\* { ...DEFAULT_OPTIONS, ...options }; confidences are in units of 1e-9
maxCorrelationWindow == 2000
minConfidence == 200000000
networkQuietPeriod == 500
DEFAULT_OPTIONS ==
    [maxCorrelationWindow |-> maxCorrelationWindow, minConfidence |-> minConfidence,
     networkQuietPeriod |-> networkQuietPeriod]
MergeOptions(given) ==
    [k \in DOMAIN DEFAULT_OPTIONS |->
        IF k \in DOMAIN given THEN given[k] ELSE DEFAULT_OPTIONS[k]]

\* new NetworkCapture(...) and new Correlator(given)
Constructed(given) ==
    /\ requests = <<>>
    /\ requestOrder = <<>>
    /\ nextIndex = 0
    /\ timestampOffset = None
    /\ pending = <<>>
    /\ heap = <<>>
    /\ nextRef = 1
    /\ fetches = EmptyBag
    /\ clock = 0
    /\ staleRefs = {}
    /\ redirectsSeen = [id \in RingIds |-> 0]
    /\ lastEvicted = None
    /\ actions = <<>>
    /\ correlation = None
    /\ options = MergeOptions(given)
    /\ driver = [now |-> 0, pendingCount |-> 0, busyAt |-> None, call |-> None]
    /\ walk = None
    /\ manager = [actionCounter |-> 0, calls |-> <<>>]

\* the correlator is constructed without options
Init == Constructed(<<>>)

\* ------------------------------------------------------------------ helpers
\* a scan that reads the wrong link field of the scanned records
FirstPreflightForWrongField(m, h, requestId) ==
    LET hits == {i \in 1..Len(m) : h[m[i].v].preflightRequestId = Some(requestId)}
    IN  IF hits = {} THEN None
        ELSE Some(m[CHOOSE i \in hits : \A j \in hits : i <= j].k)

\* the key of the first entry of map m (in iteration order) whose record is a
\* preflight for requestId: the `for (const [id, entry] of ...) ... break` scans
FirstPreflightFor(m, h, requestId) ==
    LET hits == {i \in 1..Len(m) : h[m[i].v].preflightFor = Some(requestId)}
    IN  IF hits = {} THEN None
        ELSE Some(m[CHOOSE i \in hits : \A j \in hits : i <= j].k)

\* history bookkeeping shared by every step: objects nobody can reach are
\* forgotten
Forget(h) == staleRefs' = staleRefs \cap DOMAIN h

\* a redirect branch that pushes the URL of the new request on the chain
recordRedirectPushesNewUrl(existing, params) ==
    [existing EXCEPT
       !.entryChain = Append(@, [url |-> params.request.url,
                                 status |-> Get(params.redirectResponse).status,
                                 headers |-> Get(params.redirectResponse).headers]),
       !.url = params.request.url,
       !.method = params.request.method,
       !.requestHeaders = params.request.headers,
       !.requestBody = params.request.postData,
       !.startTime = params.wallTime * 1000]

\* a redirect branch that records a hop only when the URL changes
recordRedirectSkipsSameUrl(existing, params) ==
    [existing EXCEPT
       !.entryChain = IF existing.url = params.request.url THEN @
                      ELSE Append(@, [url |-> existing.url,
                                 status |-> Get(params.redirectResponse).status,
                                 headers |-> Get(params.redirectResponse).headers]),
       !.url = params.request.url,
       !.method = params.request.method,
       !.requestHeaders = params.request.headers,
       !.requestBody = params.request.postData,
       !.startTime = params.wallTime * 1000]

\* the redirect branch of handleRequestWillBeSent: the entry after the
\* previous response is pushed on the chain and the request is overwritten
recordRedirect(existing, params) ==
    [existing EXCEPT
       !.entryChain = Append(@, [url |-> existing.url,
                                 status |-> Get(params.redirectResponse).status,
                                 headers |-> Get(params.redirectResponse).headers]),
       !.url = params.request.url,
       !.method = params.request.method,
       !.requestHeaders = params.request.headers,
       !.requestBody = params.request.postData,
       !.startTime = params.wallTime * 1000]

\* a finalizeRequest that evicts with requestOrder.pop() instead of shift()
finalizeRequestEvictsNewest(requestId, ref, pend, req, ord) ==
    LET full == Len(req) >= MaxRequests
        evict == full /\ ord # <<>>
        req1 == IF evict THEN MapDelete(req, ord[Len(ord)]) ELSE req
        ord1 == IF evict THEN SubSeq(ord, 1, Len(ord) - 1) ELSE ord
    IN  [ pending |-> MapDelete(pend, requestId),
          requests |-> MapSet(req1, requestId, ref),
          requestOrder |-> Append(ord1, requestId) ]

\* a finalizeRequest that leaves the record in the in-flight map
finalizeRequestKeepsPending(requestId, ref, pend, req, ord) ==
    LET full == Len(req) >= MaxRequests
        evict == full /\ ord # <<>>
        req1 == IF evict THEN MapDelete(req, Head(ord)) ELSE req
        ord1 == IF evict THEN Tail(ord) ELSE ord
    IN  [ pending |-> pend,
          requests |-> MapSet(req1, requestId, ref),
          requestOrder |-> Append(ord1, requestId) ]

\* finalizeRequest(requestId, partial): the values of pending, requests and
\* requestOrder after the call, from their values pend, req, ord before it
finalizeRequest(requestId, ref, pend, req, ord) ==
    LET full == Len(req) >= MaxRequests
        evict == full /\ ord # <<>>
        req1 == IF evict THEN MapDelete(req, Head(ord)) ELSE req
        ord1 == IF evict THEN Tail(ord) ELSE ord
    IN  [ pending |-> MapDelete(pend, requestId),
          requests |-> MapSet(req1, requestId, ref),
          requestOrder |-> Append(ord1, requestId) ]

\* history: what the step that took the store from req to req2 evicted
Evicted(req, req2) ==
    LET gone == MapKeys(req) \ MapKeys(req2)
    IN  IF gone = {} THEN lastEvicted
        ELSE LET k == CHOOSE k \in gone : TRUE
             IN  Some([id |-> k, index |-> heap[MapGet(req, k)].index])

\* --------------------------------------------------------- CDP event handlers
\* an offset that follows the wall clock of every request-sent
timestampOffsetOfLatest(params) == Some(params.wallTime - params.timestamp)

\* "Compute timestamp offset on first event": the offset after a request-sent
\* that is not excluded
timestampOffsetAfter(params) ==
    IF timestampOffset = None
    THEN Some(params.wallTime - params.timestamp)
    ELSE timestampOffset

handleRequestWillBeSent(params) ==
    /\ clock' = params.timestamp
    /\ UNCHANGED <<lastEvicted, correlatorVars, callVars>>
    /\ IF shouldExclude(params.request.url)
       THEN UNCHANGED <<requests, requestOrder, nextIndex, timestampOffset, pending,
                        heap, nextRef, fetches, staleRefs>>
       ELSE
         /\ timestampOffset' = timestampOffsetAfter(params)
         /\ UNCHANGED <<requests, requestOrder, fetches>>
         /\ IF IsSome(params.redirectResponse) /\ MapHas(pending, params.requestId)
            THEN \* a redirect: record the previous response in the chain
              LET ref == MapGet(pending, params.requestId)
              IN  /\ heap' = [heap EXCEPT ![ref] =
                         [recordRedirect(heap[ref], params) EXCEPT !.hops = @ + 1]]
                  /\ UNCHANGED <<pending, nextIndex, nextRef, staleRefs>>
            ELSE \* a new request
              LET ref == nextRef
                  id == params.requestId
                  pend1 == MapSet(pending, id, ref)
                  heap1 == (ref :> NewEntry(params, nextIndex)) @@ heap
                  isPreflight == params.initiator.type = "preflight"
                                   /\ IsSome(params.initiator.requestId)
                  target == Get(params.initiator.requestId)
                  \* the preflight branch
                  heapA == [heap1 EXCEPT ![ref].preflightFor = Some(target)]
                  heapB == IF MapHas(pend1, target)
                           THEN [heapA EXCEPT ![MapGet(pend1, target)].preflightRequestId = Some(id)]
                           ELSE heapA
                  heapC == IF MapHas(requests, target)
                           THEN [heapB EXCEPT ![MapGet(requests, target)].preflightRequestId = Some(id)]
                           ELSE heapB
                  \* the non-preflight branch
                  inPending == FirstPreflightFor(pend1, heap1, id)
                  heapP == IF IsSome(inPending)
                           THEN [heap1 EXCEPT ![ref].preflightRequestId = inPending]
                           ELSE heap1
                  inCompleted == FirstPreflightFor(requests, heap1, id)
                  heapQ == IF IsSome(inCompleted)
                           THEN [heapP EXCEPT ![ref].preflightRequestId = inCompleted]
                           ELSE heapP
                  heap2 == Collect(IF isPreflight THEN heapC ELSE heapQ,
                                   requests, pend1, fetches)
              IN  /\ pending' = pend1
                  /\ nextIndex' = nextIndex + 1
                  /\ nextRef' = nextRef + 1
                  /\ heap' = heap2
                  /\ Forget(heap2)

handleResponseReceived(params) ==
    /\ clock' = params.timestamp
    /\ UNCHANGED <<requests, requestOrder, nextIndex, timestampOffset, pending,
                   nextRef, fetches, staleRefs, redirectsSeen, lastEvicted,
                   correlatorVars, callVars>>
    /\ IF ~MapHas(pending, params.requestId)
       THEN UNCHANGED heap
       ELSE heap' = [heap EXCEPT ![MapGet(pending, params.requestId)] =
                [@ EXCEPT !.status = params.response.status,
                          !.statusText = params.response.statusText,
                          !.responseHeaders = params.response.headers,
                          !.mimeType = params.response.mimeType,
                          !.responseTime =
                              Some(toWallTimeMs(timestampOffset, params.timestamp)),
                          !.resourceType =
                              IF IsSome(params.response.type)
                              THEN classifyResourceType(params.response.type)
                              ELSE @]]

\* the commit shared by the three callers of finalizeRequest: h is the heap
\* and fts the outstanding fetches when finalizeRequest is called
Commit(requestId, ref, h, fts) ==
    LET fin == finalizeRequest(requestId, ref, pending, requests, requestOrder)
        heap1 == [h EXCEPT ![ref].fired = @ + 1]
        heap2 == Collect(heap1, fin.requests, fin.pending, fts)
    IN  /\ pending' = fin.pending
        /\ requests' = fin.requests
        /\ requestOrder' = fin.requestOrder
        /\ lastEvicted' = Evicted(requests, fin.requests)
        /\ heap' = heap2
        /\ Forget(heap2)

\* the .then callback of a body fetch when onRequestComplete throws: the
\* exception leaves finalizeRequest after the record is stored and rejects
\* the promise .then returned, so the .catch callback runs finalizeRequest
\* once more
CommitThenCatch(requestId, ref, h, fts) ==
    LET fin1 == finalizeRequest(requestId, ref, pending, requests, requestOrder)
        fin == finalizeRequest(requestId, ref, fin1.pending, fin1.requests,
                               fin1.requestOrder)
        heap1 == [h EXCEPT ![ref].fired = @ + 2]
        heap2 == Collect(heap1, fin.requests, fin.pending, fts)
    IN  /\ pending' = fin.pending
        /\ requests' = fin.requests
        /\ requestOrder' = fin.requestOrder
        /\ lastEvicted' = IF MapKeys(fin1.requests) \subseteq MapKeys(fin.requests)
                          THEN Evicted(requests, fin1.requests)
                          ELSE Evicted(fin1.requests, fin.requests)
        /\ heap' = heap2
        /\ Forget(heap2)

\* getResponseBody is passed (hasCallback) or omitted
handleLoadingFinished(params, hasCallback) ==
    /\ clock' = params.timestamp
    /\ UNCHANGED <<nextIndex, timestampOffset, nextRef, redirectsSeen, correlatorVars, callVars>>
    /\ IF ~MapHas(pending, params.requestId)
       THEN UNCHANGED <<requests, requestOrder, pending, heap, fetches, staleRefs,
                        lastEvicted>>
       ELSE
         LET ref == MapGet(pending, params.requestId)
             endTime == toWallTimeMs(timestampOffset, params.timestamp)
             heap1 == [heap EXCEPT ![ref] =
                 [@ EXCEPT !.responseSize = params.encodedDataLength,
                           !.endTime = Some(endTime),
                           !.duration = Some(endTime - heap[ref].startTime),
                           !.chainCopied = TRUE]]
         IN  IF hasCallback /\ shouldFetchBody(heap1[ref])
             THEN /\ fetches' = fetches (+) SetToBag({[requestId |-> params.requestId,
                                                      ref |-> ref]})
                  /\ heap' = heap1
                  /\ UNCHANGED <<requests, requestOrder, pending, staleRefs, lastEvicted>>
             ELSE /\ Commit(params.requestId, ref, heap1, fetches)
                  /\ UNCHANGED fetches

\* a handleLoadingFailed that records the error text whatever the status
handleLoadingFailedAlwaysErrorText(params) ==
    /\ clock' = params.timestamp
    /\ UNCHANGED <<nextIndex, timestampOffset, nextRef, fetches, redirectsSeen,
                   correlatorVars, callVars>>
    /\ IF ~MapHas(pending, params.requestId)
       THEN UNCHANGED <<requests, requestOrder, pending, heap, staleRefs, lastEvicted>>
       ELSE
         LET ref == MapGet(pending, params.requestId)
             endTime == toWallTimeMs(timestampOffset, params.timestamp)
             heap1 == [heap EXCEPT ![ref] =
                 [@ EXCEPT !.statusText = params.errorText,
                           !.endTime = Some(endTime),
                           !.duration = Some(endTime - heap[ref].startTime),
                           !.chainCopied = TRUE]]
         IN  Commit(params.requestId, ref, heap1, fetches)

\* a handleLoadingFailed that queues the ID of an event it does not know
handleLoadingFailedQueuesUnknown(params) ==
    /\ clock' = params.timestamp
    /\ UNCHANGED <<nextIndex, timestampOffset, nextRef, fetches, redirectsSeen,
                   correlatorVars, callVars>>
    /\ IF ~MapHas(pending, params.requestId)
       THEN /\ requestOrder' = Append(requestOrder, params.requestId)
            /\ UNCHANGED <<requests, pending, heap, staleRefs, lastEvicted>>
       ELSE
         LET ref == MapGet(pending, params.requestId)
             endTime == toWallTimeMs(timestampOffset, params.timestamp)
             heap1 == [heap EXCEPT ![ref] =
                 [@ EXCEPT !.statusText = IF heap[ref].status = 0
                                          THEN params.errorText ELSE @,
                           !.endTime = Some(endTime),
                           !.duration = Some(endTime - heap[ref].startTime),
                           !.chainCopied = TRUE]]
         IN  Commit(params.requestId, ref, heap1, fetches)

handleLoadingFailed(params) ==
    /\ clock' = params.timestamp
    /\ UNCHANGED <<nextIndex, timestampOffset, nextRef, fetches, redirectsSeen,
                   correlatorVars, callVars>>
    /\ IF ~MapHas(pending, params.requestId)
       THEN UNCHANGED <<requests, requestOrder, pending, heap, staleRefs, lastEvicted>>
       ELSE
         LET ref == MapGet(pending, params.requestId)
             endTime == toWallTimeMs(timestampOffset, params.timestamp)
             heap1 == [heap EXCEPT ![ref] =
                 [@ EXCEPT !.statusText = IF heap[ref].status = 0
                                          THEN params.errorText ELSE @,
                           !.endTime = Some(endTime),
                           !.duration = Some(endTime - heap[ref].startTime),
                           !.chainCopied = TRUE]]
         IN  Commit(params.requestId, ref, heap1, fetches)

\* the promise returned by getResponseBody settles: the .then / .catch
\* callbacks of handleLoadingFinished run with the entry they closed over;
\* throws: onRequestComplete is set and throws when it is called
settleBodyFetch(f, outcome, throws) ==
    /\ BagIn(f, fetches)
    /\ LET fts == fetches (-) SetToBag({f})
           heap1 == IF outcome.kind = "body"
                    THEN [heap EXCEPT ![f.ref].responseBody =
                            Some(truncateBody(outcome.body, outcome.base64Encoded))]
                    ELSE heap
       IN  /\ fetches' = fts
           /\ IF throws /\ outcome.kind # "reject"
              THEN CommitThenCatch(f.requestId, f.ref, heap1, fts)
              ELSE Commit(f.requestId, f.ref, heap1, fts)
    /\ UNCHANGED <<nextIndex, timestampOffset, nextRef, clock, redirectsSeen,
                   correlatorVars, callVars>>

\* a clear() that does not reset the index counter
clearKeepsNextIndex ==
    /\ requests' = <<>>
    /\ requestOrder' = <<>>
    /\ pending' = <<>>
    /\ nextIndex' = nextIndex
    /\ timestampOffset' = None
    /\ heap' = Collect(heap, <<>>, <<>>, fetches)
    /\ staleRefs' = DOMAIN heap'
    /\ lastEvicted' = None
    /\ UNCHANGED <<nextRef, fetches, clock, redirectsSeen, correlatorVars, callVars>>

clear ==
    /\ requests' = <<>>
    /\ requestOrder' = <<>>
    /\ pending' = <<>>
    /\ nextIndex' = 0
    /\ timestampOffset' = None
    /\ heap' = Collect(heap, <<>>, <<>>, fetches)
    /\ staleRefs' = DOMAIN heap'
    /\ lastEvicted' = None
    /\ UNCHANGED <<nextRef, fetches, clock, redirectsSeen, correlatorVars, callVars>>

\* ------------------------------------------------------------- Correlator
\* Scores and confidences are counted in units of 1e-9, times in milliseconds.

USER_EVENT_TYPES ==
    {"click", "dblclick", "mousedown", "mouseup", "submit", "input", "change",
     "keydown", "keyup", "keypress", "touchstart", "touchend", "pointerdown",
     "pointerup", "focus", "blur"}

\* String.prototype.toLowerCase on the strings that occur
toLowerCase(str) ==
    CASE str = "Click" -> "click"
      [] str = "Save changes" -> "save changes"
      [] str = "Open menu" -> "open menu"
      [] str = "Navigate to https://example.com/" -> "navigate to https://example.com/"
      [] str = "Input: #q" -> "input: #q"
      [] OTHER -> str

\* regex.test(str) for the regular expressions and (lower-case) strings that
\* occur
RegExpMatches(regex, str) ==
    CASE regex = "login|sign.?in" -> FALSE
      [] regex = "register|sign.?up" -> FALSE
      [] regex = "save|update|submit" -> str = "save changes"
      [] regex = "delete|remove" -> FALSE
      [] regex = "search" -> FALSE
      [] regex = "load.?more|next" -> FALSE
      [] regex = "logout|sign.?out" -> FALSE
      [] regex = "auth|login|sign.?in|session" -> FALSE
      [] regex = "register|sign.?up|user" -> FALSE
      [] regex = "." -> str # ""
      [] regex = "search|query|find" -> FALSE
      [] regex = "page|offset|cursor|limit" -> FALSE
      [] regex = "logout|sign.?out|session" -> FALSE
      [] OTHER -> FALSE

\* BACKGROUND_PATTERNS.some(pattern => pattern.test(url)) for the URLs that occur
isLikelyBackground(request) == request.url = "https://example.com/analytics"

\* extractEventOrigin(stack): a stack is the sequence of the descriptions of
\* the stack trace and its parents, innermost first
extractEventOrigin(stack) ==
    LET hits == {i \in 1..Len(stack) :
                   /\ i - 1 < 50
                   /\ IsSome(stack[i])
                   /\ toLowerCase(Get(stack[i])) \in USER_EVENT_TYPES}
    IN  IF hits = {} THEN None
        ELSE LET i == CHOOSE i \in hits : \A j \in hits : i <= j
             IN  Some([eventType |-> toLowerCase(Get(stack[i])), asyncDepth |-> i - 1])

Abs(n) == IF n < 0 THEN 0 - n ELSE n

\* a reduce that keeps its initial value: the first candidate
closestActionFirst(candidates, startTime) == candidates[1]

\* a reduce whose callback keeps the current action on a tie
RECURSIVE closestActionLastOfTies(_, _)
closestActionLastOfTies(candidates, startTime) ==
    IF Len(candidates) = 1 THEN candidates[1]
    ELSE LET best == closestActionLastOfTies(SubSeq(candidates, 1, Len(candidates) - 1),
                                             startTime)
             current == candidates[Len(candidates)]
         IN  IF Abs(startTime - current.timestamp) <= Abs(startTime - best.timestamp)
             THEN current ELSE best

\* candidates.reduce(...): the first of the actions nearest in time
RECURSIVE closestAction(_, _)
closestAction(candidates, startTime) ==
    IF Len(candidates) = 1 THEN candidates[1]
    ELSE LET best == closestAction(SubSeq(candidates, 1, Len(candidates) - 1), startTime)
             current == candidates[Len(candidates)]
         IN  IF Abs(startTime - current.timestamp) < Abs(startTime - best.timestamp)
             THEN current ELSE best

\* the test of the filter in matchByStackTrace
stackTraceCandidate(action, eventOrigin, request) ==
    LET eventMatchesAction ==
            \/ eventOrigin.eventType = "click" /\ action.type = "click"
            \/ eventOrigin.eventType = "submit" /\ action.type = "submit"
            \/ eventOrigin.eventType \in {"input", "change", "keydown"}
                  /\ action.type = "type"
            \/ eventOrigin.eventType = "submit" /\ action.type = "navigate"
        delta == request.startTime - action.timestamp
    IN  eventMatchesAction /\ delta >= -10 /\ delta <= options.maxCorrelationWindow

matchByStackTrace(request) ==
    IF request.initiator.stack = None THEN None
    ELSE LET eventOrigin == extractEventOrigin(Get(request.initiator.stack))
         IN  IF eventOrigin = None THEN None
             ELSE LET candidates ==
                          SelectSeq(actions, LAMBDA a :
                              stackTraceCandidate(a, Get(eventOrigin), request))
                      depth == Get(eventOrigin).asyncDepth
                      confidence == IF 950000000 - depth * 20000000 > 850000000
                                    THEN 950000000 - depth * 20000000
                                    ELSE 850000000
                  IN  IF candidates = <<>> THEN None
                      ELSE Some([action |-> closestAction(candidates, request.startTime),
                                 confidence |-> confidence])

\* 0.35 * Math.exp(-deltaMs / 150), rounded down, for the deltas that occur
timeProximity(deltaMs) ==
    CASE deltaMs = -11 -> 376631210
      [] deltaMs = -10 -> 374128687
      [] deltaMs = -5 -> 361863289
      [] deltaMs = 0 -> 350000000
      [] deltaMs = 5 -> 338525635
      [] deltaMs = 10 -> 327427444
      [] deltaMs = 15 -> 316693096
      [] deltaMs = 20 -> 306310661
      [] deltaMs = 30 -> 286555763
      [] deltaMs = 50 -> 250785958
      [] deltaMs = 55 -> 242564217
      [] deltaMs = 1980 -> 647
      [] deltaMs = 2000 -> 566
      [] deltaMs = 2001 -> 563

\* the patterns of semanticScore, in order
SemanticPatterns ==
    << [text |-> "login|sign.?in", url |-> "auth|login|sign.?in|session",
        method |-> Some("POST"), bonus |-> 300000000],
       [text |-> "register|sign.?up", url |-> "register|sign.?up|user",
        method |-> Some("POST"), bonus |-> 300000000],
       [text |-> "save|update|submit", url |-> ".",
        method |-> Some("POST"), bonus |-> 150000000],
       [text |-> "delete|remove", url |-> ".",
        method |-> Some("DELETE"), bonus |-> 250000000],
       [text |-> "search", url |-> "search|query|find",
        method |-> Some("GET"), bonus |-> 250000000],
       [text |-> "load.?more|next", url |-> "page|offset|cursor|limit",
        method |-> Some("GET"), bonus |-> 200000000],
       [text |-> "logout|sign.?out", url |-> "logout|sign.?out|session",
        method |-> None, bonus |-> 300000000] >>

semanticScore(action, request) ==
    LET url == toLowerCase(request.url)
        description == toLowerCase(action.targetDescription)
        navigate == IF action.type = "navigate" /\ request.resourceType = "document"
                    THEN 350000000 ELSE 0
        submit == IF action.type = "submit" /\ request.method = "POST"
                  THEN 250000000 ELSE 0
        click == IF action.type = "click" /\ request.resourceType \in {"xhr", "fetch"}
                 THEN 150000000 ELSE 0
        hits == {i \in 1..Len(SemanticPatterns) :
                   /\ RegExpMatches(SemanticPatterns[i].text, description)
                   /\ RegExpMatches(SemanticPatterns[i].url, url)
                   /\ \/ SemanticPatterns[i].method = None
                      \/ SemanticPatterns[i].method = Some(request.method)}
        bonus == IF hits = {} THEN 0
                 ELSE SemanticPatterns[CHOOSE i \in hits : \A j \in hits : i <= j].bonus
    IN  navigate + submit + click + bonus

computeScore(action, request) ==
    LET deltaMs == request.startTime - action.timestamp
        score == timeProximity(deltaMs) + semanticScore(action, request)
                   - (IF isLikelyBackground(request) THEN 200000000 ELSE 0)
    IN  IF score < 0 THEN 0 ELSE IF score > 1000000000 THEN 1000000000 ELSE score

\* [...].sort((a, b) => b.endTime - a.endTime) and
\* [...].sort((a, b) => b.confidence - a.confidence): stable, descending by
\* the key each element is paired with
RECURSIVE sortDescending(_)
sortDescending(seq) ==
    IF seq = <<>> THEN <<>>
    ELSE LET rest == sortDescending(Tail(seq))
             x == Head(seq)
             before == SelectSeq(rest, LAMBDA y : y.key > x.key)
             after == SelectSeq(rest, LAMBDA y : y.key <= x.key)
         IN  before \o <<x>> \o after

\* Array.prototype.find on this.actions
findAction(actionId) ==
    LET hits == {i \in 1..Len(actions) : Some(actions[i].id) = actionId}
    IN  IF hits = {} THEN None
        ELSE Some(actions[CHOOSE i \in hits : \A j \in hits : i <= j])

\* a matchByChain without its preflight branch: only the temporal chain
matchByChainTemporalOnly(request, allRequests) ==
    LET correlated == SelectSeq(allRequests, LAMBDA r :
                          IsSome(r.correlatedActionId) /\ IsSome(r.endTime))
        recentCorrelated ==
            sortDescending([i \in 1..Len(correlated) |->
                              [key |-> Get(correlated[i].endTime),
                               correlatedActionId |-> correlated[i].correlatedActionId]])
        temporal == {i \in 1..Len(recentCorrelated) :
                       LET gap == request.startTime - recentCorrelated[i].key
                       IN  /\ gap >= 0 /\ gap <= 100
                           /\ IsSome(findAction(recentCorrelated[i].correlatedActionId))}
    IN  IF temporal = {} THEN None
        ELSE LET p == recentCorrelated[CHOOSE i \in temporal : \A j \in temporal : i <= j]
             IN  Some([action |-> Get(findAction(p.correlatedActionId)),
                       confidence |-> 500000000, method |-> "chain"])

matchByChain(request, allRequests) ==
    LET parents == {i \in 1..Len(allRequests) :
                      Some(allRequests[i].id) = request.initiator.requestId}
        parent == allRequests[CHOOSE i \in parents : \A j \in parents : i <= j]
        preflightMatch ==
            IF /\ request.initiator.type = "preflight"
               /\ IsSome(request.initiator.requestId)
               /\ parents # {}
               /\ IsSome(parent.correlatedActionId)
               /\ IsSome(findAction(parent.correlatedActionId))
            THEN Some([action |-> Get(findAction(parent.correlatedActionId)),
                       confidence |-> 850000000, method |-> "chain"])
            ELSE None
        correlated == SelectSeq(allRequests, LAMBDA r :
                          IsSome(r.correlatedActionId) /\ IsSome(r.endTime))
        recentCorrelated ==
            sortDescending([i \in 1..Len(correlated) |->
                              [key |-> Get(correlated[i].endTime),
                               correlatedActionId |-> correlated[i].correlatedActionId]])
        temporal == {i \in 1..Len(recentCorrelated) :
                       LET gap == request.startTime - recentCorrelated[i].key
                       IN  /\ gap >= 0 /\ gap <= 100
                           /\ IsSome(findAction(recentCorrelated[i].correlatedActionId))}
    IN  IF IsSome(preflightMatch) THEN preflightMatch
        ELSE IF temporal = {} THEN None
        ELSE LET p == recentCorrelated[CHOOSE i \in temporal : \A j \in temporal : i <= j]
             IN  Some([action |-> Get(findAction(p.correlatedActionId)),
                       confidence |-> 500000000, method |-> "chain"])

\* a layer 2 / 3 filter whose window is open at its upper end
timingCandidateOpenWindow(action, request) ==
    LET delta == request.startTime - action.timestamp
    IN  delta >= -10 /\ delta < maxCorrelationWindow

\* the test of the layer 2 / 3 filter in correlateRequest
timingCandidate(action, request) ==
    LET delta == request.startTime - action.timestamp
    IN  delta >= -10 /\ delta <= options.maxCorrelationWindow

\* a correlateRequest that keeps the candidates that score below minConfidence
correlateRequestUnfiltered(request, allRequests) ==
    LET layer0 == IF request.initiator.type = "preflight"
                     /\ IsSome(request.initiator.requestId)
                  THEN matchByChain(request, allRequests) ELSE None
        stackMatch == matchByStackTrace(request)
        candidates == SelectSeq(actions, LAMBDA a : timingCandidate(a, request))
        scored == sortDescending(
                      [i \in 1..Len(candidates) |->
                         [action |-> candidates[i],
                          key |-> computeScore(candidates[i], request)]])
    IN  IF IsSome(layer0) THEN layer0
        ELSE IF IsSome(stackMatch)
        THEN Some([action |-> Get(stackMatch).action,
                   confidence |-> Get(stackMatch).confidence,
                   method |-> "stack_trace"])
        ELSE IF candidates = <<>> THEN matchByChain(request, allRequests)
        ELSE Some([action |-> scored[1].action,
                   confidence |-> scored[1].key,
                   method |-> IF scored[1].key >= 500000000
                              THEN "timing_semantic" ELSE "timing_only"])

correlateRequest(request, allRequests) ==
    LET layer0 == IF request.initiator.type = "preflight"
                     /\ IsSome(request.initiator.requestId)
                  THEN matchByChain(request, allRequests) ELSE None
        stackMatch == matchByStackTrace(request)
        candidates == SelectSeq(actions, LAMBDA a : timingCandidate(a, request))
        scored == sortDescending(
                      SelectSeq([i \in 1..Len(candidates) |->
                                   [action |-> candidates[i],
                                    key |-> computeScore(candidates[i], request)]],
                                LAMBDA sc : sc.key >= options.minConfidence))
    IN  IF IsSome(layer0) THEN layer0
        ELSE IF IsSome(stackMatch)
        THEN Some([action |-> Get(stackMatch).action,
                   confidence |-> Get(stackMatch).confidence,
                   method |-> "stack_trace"])
        ELSE IF candidates = <<>> THEN matchByChain(request, allRequests)
        ELSE IF scored = <<>> THEN None
        ELSE Some([action |-> scored[1].action,
                   confidence |-> scored[1].key,
                   method |-> IF scored[1].key >= 500000000
                              THEN "timing_semantic" ELSE "timing_only"])

\* -------------------------------------------------------- chain detection
\* Strings that are cut or searched (tokens, Authorization headers) are
\* sequences of character codes.  A JavaScript value read out of a parsed
\* body is None (undefined) or Some of [t |-> "string", v |-> characters],
\* [t |-> "number", v |-> n] or [t |-> "object", v |-> the properties].
Str(chars) == [t |-> "string", v |-> chars]
Num(n) == [t |-> "number", v |-> n]
Obj(properties) == [t |-> "object", v |-> properties]

\* ToBoolean of a value
Truthy(value) ==
    /\ IsSome(value)
    /\ Get(value).t = "string" => Get(value).v # <<>>
    /\ Get(value).t = "number" => Get(value).v # 0

\* object.name, and object?.name for an object that may be undefined
Property(object, name) ==
    IF name \in DOMAIN object.v THEN Some(object.v[name]) ELSE None
OptionalProperty(object, name) ==
    IF object = None \/ Get(object).t # "object" THEN None
    ELSE Property(Get(object), name)

\* a || b || ...: the first truthy operand, or else the last operand
RECURSIVE FirstTruthy(_)
FirstTruthy(values) ==
    IF Len(values) = 1 \/ Truthy(Head(values)) THEN Head(values)
    ELSE FirstTruthy(Tail(values))

\* String.prototype.substring(0, n) and String.prototype.includes
Substring(chars, n) == SubSeq(chars, 1, IF Len(chars) < n THEN Len(chars) ELSE n)
Includes(chars, part) ==
    \E k \in 0..(Len(chars) - Len(part)) : SubSeq(chars, k + 1, k + Len(part)) = part

\* JSON.parse of the response bodies that occur: None where it throws
BearerToken == [i \in 1..21 |-> i]
JSONParse(text) ==
    CASE text = "{\"token\":TOKEN21}" -> Some(Obj([token |-> Str(BearerToken)]))
      [] text = "{\"token\":\"\",\"access_token\":TOKEN21}" ->
            Some(Obj([token |-> Str(<<>>), access_token |-> Str(BearerToken)]))
      [] text = "{\"data\":{\"token\":TOKEN21}}" ->
            Some(Obj([data |-> Obj([token |-> Str(BearerToken)])]))
      [] text = "{\"token\":123,\"jwt\":TOKEN21}" ->
            Some(Obj([token |-> Num(123), jwt |-> Str(BearerToken)]))
      [] text = "{\"ok\":true}" -> Some(Obj([ok |-> Num(1)]))
      [] OTHER -> None

\* /auth|login|sign.?in|token|session|oauth/i.test(url) for the URLs that occur
AuthLikeUrl(url) ==
    url \in {"https://api.example.com/auth/login", "https://api.example.com/OAuth"}

\* the token detectAuthFlow reads from a response body: None where the
\* request is passed over
tokenValue(responseBody) ==
    LET parsed == JSONParse(responseBody)
        body == Get(parsed)
        value == FirstTruthy(<<Property(body, "token"),
                               Property(body, "access_token"),
                               Property(body, "jwt"),
                               OptionalProperty(Property(body, "data"), "token"),
                               OptionalProperty(Property(body, "data"), "access_token")>>)
    IN  IF parsed = None THEN None
        ELSE IF ~Truthy(value) \/ Get(value).t # "string" THEN None
        ELSE Some(Get(value).v)

\* r.requestHeaders["Authorization"] || r.requestHeaders["authorization"]
authHeader(r) ==
    LET upper == IF "Authorization" \in DOMAIN r.requestHeaders
                 THEN r.requestHeaders["Authorization"] ELSE <<>>
        lower == IF "authorization" \in DOMAIN r.requestHeaders
                 THEN r.requestHeaders["authorization"] ELSE <<>>
    IN  IF upper # <<>> THEN upper ELSE lower

\* a filter that takes the requests that started with the auth request too
authenticatedFromStart(reqs, authReq) ==
    LET tokenPrefix == Substring(Get(tokenValue(Get(authReq.responseBody))), 20)
    IN  SelectSeq(reqs, LAMBDA r :
            /\ ~(r.startTime < authReq.startTime)
            /\ authHeader(r) # <<>>
            /\ Includes(authHeader(r), tokenPrefix))

\* the requests that detectAuthFlow finds to use the token of authReq
authenticated(reqs, authReq) ==
    LET tokenPrefix == Substring(Get(tokenValue(Get(authReq.responseBody))), 20)
    IN  SelectSeq(reqs, LAMBDA r :
            /\ ~(r.startTime <= authReq.startTime)
            /\ authHeader(r) # <<>>
            /\ Includes(authHeader(r), tokenPrefix))

\* the test of the loop of detectAuthFlow that an auth request yields a chain
yieldsAuthFlow(reqs, authReq) ==
    /\ ~(authReq.status < 200 \/ authReq.status >= 300)
    /\ IsSome(authReq.responseBody) /\ Get(authReq.responseBody) # ""
    /\ IsSome(tokenValue(Get(authReq.responseBody)))
    /\ authenticated(reqs, authReq) # <<>>

detectAuthFlow(reqs) ==
    LET authRequests == SelectSeq(reqs, LAMBDA r : r.method = "POST" /\ AuthLikeUrl(r.url))
        hits == {i \in 1..Len(authRequests) : yieldsAuthFlow(reqs, authRequests[i])}
    IN  IF hits = {} THEN None
        ELSE LET authReq == authRequests[CHOOSE i \in hits : \A j \in hits : i <= j]
                 users == authenticated(reqs, authReq)
             IN  Some([type |-> "auth_flow",
                       requestIds |-> <<authReq.id>> \o [i \in 1..Len(users) |-> users[i].id]])

\* [...].sort((a, b) => a.timing.startTime - b.timing.startTime): stable,
\* ascending by start time
RECURSIVE sortByStartTime(_)
sortByStartTime(reqs) ==
    IF reqs = <<>> THEN <<>>
    ELSE LET rest == sortByStartTime(Tail(reqs))
             x == Head(reqs)
             before == SelectSeq(rest, LAMBDA y : y.startTime < x.startTime)
             after == SelectSeq(rest, LAMBDA y : y.startTime >= x.startTime)
         IN  before \o <<x>> \o after

\* a detectSequentialChains that also pairs a request with one that started
\* before it ended
detectSequentialChainsOverlapping(reqs) ==
    LET sorted == sortByStartTime(reqs)
        pairs == SelectSeq([i \in 1..(Len(sorted) - 1) |-> i], LAMBDA i :
                     /\ IsSome(sorted[i].endTime) /\ Get(sorted[i].endTime) # 0
                     /\ sorted[i + 1].startTime - Get(sorted[i].endTime) <= 50)
    IN  [k \in 1..Len(pairs) |->
            [type |-> "sequential",
             requestIds |-> <<sorted[pairs[k]].id, sorted[pairs[k] + 1].id>>]]

detectSequentialChains(reqs) ==
    LET sorted == sortByStartTime(reqs)
        pairs == SelectSeq([i \in 1..(Len(sorted) - 1) |-> i], LAMBDA i :
                     /\ IsSome(sorted[i].endTime) /\ Get(sorted[i].endTime) # 0
                     /\ sorted[i + 1].startTime - Get(sorted[i].endTime) >= 0
                     /\ sorted[i + 1].startTime - Get(sorted[i].endTime) <= 50)
    IN  [k \in 1..Len(pairs) |->
            [type |-> "sequential",
             requestIds |-> <<sorted[pairs[k]].id, sorted[pairs[k] + 1].id>>]]

\* Array.prototype.find on the requests of the group, by ID
findRequest(reqs, id) ==
    LET hits == {i \in 1..Len(reqs) : Some(reqs[i].id) = id}
    IN  IF hits = {} THEN None
        ELSE Some(reqs[CHOOSE i \in hits : \A j \in hits : i <= j])

\* the chains of a correlation group, without their descriptions
detectChains(reqs) ==
    LET redirected == SelectSeq(reqs, LAMBDA r : Len(r.redirectChain) > 0)
        redirects == [i \in 1..Len(redirected) |->
                        [type |-> "redirect", requestIds |-> <<redirected[i].id>>]]
        paired == SelectSeq(reqs, LAMBDA r :
                      /\ IsSome(r.preflightRequestId)
                      /\ IsSome(findRequest(reqs, r.preflightRequestId)))
        preflights == [i \in 1..Len(paired) |->
                        [type |-> "preflight",
                         requestIds |-> <<Get(paired[i].preflightRequestId), paired[i].id>>]]
        authChain == detectAuthFlow(reqs)
    IN  redirects \o preflights
          \o (IF IsSome(authChain) THEN <<Get(authChain)>> ELSE <<>>)
          \o detectSequentialChains(reqs)

\* ------------------------------------------- correlateAction, correlateAll
\* The requests passed to correlateAction and correlateAll are objects of the
\* heap, named by their references: both methods write the attribution
\* fields of the objects they are given.
Values(h, refs) == [i \in 1..Len(refs) |-> h[refs[i]]]

\* A sum of confidences is kept in two parts, millions of units and the
\* rest, so that it stays within the integers of the model checker; the
\* quotient of a sum is rounded down to a whole unit (1e-9).
ZeroSum == [millions |-> 0, rest |-> 0]
AddConfidence(sum, confidence) ==
    [millions |-> sum.millions + (confidence \div 1000000),
     rest |-> sum.rest + (confidence % 1000000)]
DivideSum(sum, n) ==
    ((sum.millions \div n) * 1000000)
        + ((((sum.millions % n) * 1000000) + sum.rest) \div n)

\* the three assignments that attribute a request to the action of a match
Attribute(h, ref, match) ==
    [h EXCEPT ![ref] = [@ EXCEPT !.correlatedActionId = Some(match.action.id),
                                 !.correlationConfidence = Some(match.confidence),
                                 !.correlationMethod = Some(match.method)]]

\* action.resultingRequestIds = ids, for the (first) action of that ID
SetResultingRequestIds(acts, actionId, ids) ==
    LET hits == {i \in 1..Len(acts) : acts[i].id = actionId}
        first == CHOOSE i \in hits : \A j \in hits : i <= j
    IN  [i \in 1..Len(acts) |->
            IF i = first THEN [acts[i] EXCEPT !.resultingRequestIds = ids] ELSE acts[i]]

\* references in ascending order of their objects' start times (stable)
sortRefsByStartTime(h, refs) ==
    LET sorted == sortByStartTime([i \in 1..Len(refs) |->
                                     [ref |-> refs[i], startTime |-> h[refs[i]].startTime]])
    IN  [i \in 1..Len(sorted) |-> sorted[i].ref]

\* the loop of correlateAction from its i-th request on: the heap, the
\* correlated array and totalConfidence it ends with
RECURSIVE correlateActionLoop(_, _, _, _, _, _)
\* the body of the loop once correlateRequest has returned match
correlateActionStep(actionId, refs, i, h, correlated, totalConfidence, match) ==
    IF IsSome(match) /\ Get(match).action.id = actionId
    THEN correlateActionLoop(actionId, refs, i + 1,
                             Attribute(h, refs[i], Get(match)),
                             Append(correlated, refs[i]),
                             AddConfidence(totalConfidence, Get(match).confidence))
    ELSE correlateActionLoop(actionId, refs, i + 1, h, correlated, totalConfidence)
correlateActionLoop(actionId, refs, i, h, correlated, totalConfidence) ==
    IF i > Len(refs)
    THEN [heap |-> h, correlated |-> correlated, totalConfidence |-> totalConfidence]
    ELSE correlateActionStep(actionId, refs, i, h, correlated, totalConfidence,
                             correlateRequest(h[refs[i]], Values(h, refs)))

\* what correlateAction leaves and returns after its loop, with the correlated
\* array in the order given; the returned action is named by its ID, and the
\* mean confidence is rounded down to a multiple of 1e-9
correlateActionReturn(actionId, loop, correlated) ==
    IF correlated = <<>>
    THEN [heap |-> loop.heap, actions |-> actions, result |-> None]
    ELSE [heap |-> loop.heap,
          actions |-> SetResultingRequestIds(actions, actionId,
                          [i \in 1..Len(correlated) |-> loop.heap[correlated[i]].id]),
          result |-> Some([action |-> actionId, requests |-> correlated,
                           chains |-> detectChains(Values(loop.heap, correlated)),
                           confidence |-> DivideSum(loop.totalConfidence,
                                                    Len(correlated))])]
\* correlated.sort((a, b) => a.startTime - b.startTime), then the return
correlateActionSorted(actionId, loop) ==
    correlateActionReturn(actionId, loop,
                          sortRefsByStartTime(loop.heap, loop.correlated))
correlateActionKeepOrder(actionId, loop) ==
    correlateActionReturn(actionId, loop, loop.correlated)

\* a correlateAction that does not sort the requests it collected
correlateActionUnsorted(actionId, refs) ==
    IF findAction(Some(actionId)) = None
    THEN [heap |-> heap, actions |-> actions, result |-> None]
    ELSE correlateActionKeepOrder(actionId,
             correlateActionLoop(actionId, refs, 1, heap, <<>>, ZeroSum))

\* correlateAction(actionId, allRequests): the heap and the actions it leaves
\* and what it returns
correlateAction(actionId, refs) ==
    IF findAction(Some(actionId)) = None
    THEN [heap |-> heap, actions |-> actions, result |-> None]
    ELSE correlateActionSorted(actionId,
             correlateActionLoop(actionId, refs, 1, heap, <<>>, ZeroSum))

\* results.get(id).requests.push(ref), after results.set(id, ...) for a new id:
\* the Map is a sequence of [k |-> action ID, requests |-> references]
PushResult(results, actionId, ref) ==
    IF \E i \in 1..Len(results) : results[i].k = actionId
    THEN [i \in 1..Len(results) |->
            IF results[i].k = actionId
            THEN [results[i] EXCEPT !.requests = Append(@, ref)] ELSE results[i]]
    ELSE Append(results, [k |-> actionId, requests |-> <<ref>>])

\* the first loop of correlateAll from its i-th request on
RECURSIVE correlateAllLoop(_, _, _, _)
\* the body of the loop once correlateRequest has returned match
correlateAllStep(refs, i, h, results, match) ==
    IF match = None THEN correlateAllLoop(refs, i + 1, h, results)
    ELSE correlateAllLoop(refs, i + 1, Attribute(h, refs[i], Get(match)),
                          PushResult(results, Get(match).action.id, refs[i]))
correlateAllLoop(refs, i, h, results) ==
    IF i > Len(refs) THEN [heap |-> h, results |-> results]
    ELSE IF IsSome(h[refs[i]].correlatedActionId)
    THEN correlateAllLoop(refs, i + 1, h, results)
    ELSE correlateAllStep(refs, i, h, results,
                          correlateRequest(h[refs[i]], Values(h, refs)))

\* sum of r.correlationConfidence || 0 over the requests of a result
RECURSIVE sumConfidence(_, _)
sumConfidence(h, refs) ==
    IF refs = <<>> THEN ZeroSum
    ELSE AddConfidence(sumConfidence(h, Tail(refs)),
                       IF IsSome(h[Head(refs)].correlationConfidence)
                       THEN Get(h[Head(refs)].correlationConfidence) ELSE 0)

\* the second loop of correlateAll from its i-th result on: the actions it
\* leaves
RECURSIVE finalizeResults(_, _, _, _)
finalizeResults(results, i, h, acts) ==
    IF i > Len(results) THEN acts
    ELSE LET sorted == sortRefsByStartTime(h, results[i].requests)
         IN  finalizeResults(results, i + 1, h,
                 SetResultingRequestIds(acts, results[i].k,
                     [j \in 1..Len(sorted) |-> h[sorted[j]].id]))

\* [...].sort((a, b) => a.action.timestamp - b.action.timestamp): stable,
\* ascending by the key each result is paired with
\* no sort: the results in the order of the Map
insertionOrder(seq) == seq

RECURSIVE sortAscending(_)
sortAscending(seq) ==
    IF seq = <<>> THEN <<>>
    ELSE LET rest == sortAscending(Tail(seq))
             x == Head(seq)
             before == SelectSeq(rest, LAMBDA y : y.key < x.key)
             after == SelectSeq(rest, LAMBDA y : y.key >= x.key)
         IN  before \o <<x>> \o after

\* the second loop's result for one entry of the Map, its requests sorted
finalizedResult(h, k, sorted) ==
    [key |-> Get(findAction(Some(k))).timestamp,
     action |-> k,
     requests |-> sorted,
     chains |-> detectChains(Values(h, sorted)),
     confidence |-> DivideSum(sumConfidence(h, sorted), Len(sorted))]
\* what correlateAll leaves and returns, given its results in their final order
correlateAllReturn(loop, ordered) ==
    [heap |-> loop.heap,
     actions |-> finalizeResults(loop.results, 1, loop.heap, actions),
     result |-> [i \in 1..Len(ordered) |->
                   [action |-> ordered[i].action, requests |-> ordered[i].requests,
                    chains |-> ordered[i].chains,
                    confidence |-> ordered[i].confidence]]]
correlateAllAfterLoop(loop) ==
    correlateAllReturn(loop,
        sortAscending([i \in 1..Len(loop.results) |->
            finalizedResult(loop.heap, loop.results[i].k,
                sortRefsByStartTime(loop.heap, loop.results[i].requests))]))

\* correlateAll(requests): the heap and the actions it leaves and the results
\* it returns
correlateAll(refs) == correlateAllAfterLoop(correlateAllLoop(refs, 1, heap, <<>>))

\* ----------------------------------------------------------- specifications
ScriptInitiator == [type |-> "script", requestId |-> None]

\* Spec: every lifecycle event for every request ID at any time (redirects,
\* excluded URLs, reuse of an ID), body fetches settling in any order, clear();
\* onRequestComplete, if set, returns normally
RequestWillBeSent ==
    /\ clock < MaxClock
    /\ \E p \in RequestWillBeSentEvents(Ids, RequestShapes, RedirectResponses,
                                        {ScriptInitiator}, clock + 1) :
          handleRequestWillBeSent(p) /\ UNCHANGED redirectsSeen
ResponseReceived ==
    /\ clock < MaxClock
    /\ \E p \in ResponseReceivedEvents(Ids, ResponseShapes, clock + 1) :
          handleResponseReceived(p)
LoadingFinished ==
    /\ clock < MaxClock
    /\ \E p \in LoadingFinishedEvents(Ids, clock + 1), cb \in BOOLEAN :
          handleLoadingFinished(p, cb)
LoadingFailed ==
    /\ clock < MaxClock
    /\ \E p \in LoadingFailedEvents(Ids, clock + 1) : handleLoadingFailed(p)
SettleBodyFetch ==
    \E f \in BagToSet(fetches), o \in FetchOutcomes : settleBodyFetch(f, o, FALSE)
Clear == clear

Next ==
    \/ RequestWillBeSent
    \/ ResponseReceived
    \/ LoadingFinished
    \/ LoadingFailed
    \/ SettleBodyFetch
    \/ Clear

Spec == Init /\ [][Next]_vars

\* SpecFair: Spec, where every promise returned by getResponseBody settles:
\* the closures a behaviour can create, and weak fairness of the settlement
\* of each
Closures == [requestId : Ids, ref : 1..(MaxClock + 1)]
SpecFair ==
    Spec /\ \A f \in Closures :
                WF_vars(\E o \in FetchOutcomes : settleBodyFetch(f, o, FALSE))

\* SpecRedirect: the lifecycle events of Spec without response-received, with
\* the redirect-bearing request-sent events counted per request ID
CountRedirect(p) ==
    redirectsSeen' = IF IsSome(p.redirectResponse)
                     THEN [redirectsSeen EXCEPT ![p.requestId] = @ + 1]
                     ELSE redirectsSeen
RedirectRequestWillBeSent ==
    /\ clock < MaxClockRedirect
    /\ \E p \in RequestWillBeSentEvents(Ids, RequestShapes, RedirectResponses,
                                        {ScriptInitiator}, clock + 1) :
          handleRequestWillBeSent(p) /\ CountRedirect(p)
RedirectLoadingFinished ==
    /\ clock < MaxClockRedirect
    /\ \E p \in LoadingFinishedEvents(Ids, clock + 1), cb \in BOOLEAN :
          handleLoadingFinished(p, cb)
RedirectLoadingFailed ==
    /\ clock < MaxClockRedirect
    /\ \E p \in LoadingFailedEvents(Ids, clock + 1) : handleLoadingFailed(p)
RedirectSettleBodyFetch ==
    \E f \in BagToSet(fetches) : settleBodyFetch(f, [kind |-> "null"], FALSE)
RedirectClear == clear

NextRedirect ==
    \/ RedirectRequestWillBeSent
    \/ RedirectLoadingFinished
    \/ RedirectLoadingFailed
    \/ RedirectSettleBodyFetch
    \/ RedirectClear

SpecRedirect == Init /\ [][NextRedirect]_vars

\* SpecRing: many short lifecycles over three request IDs, all at one instant
\* of the source's clock, to fill the store and drive evictions
RingShapes == {rq \in RequestShapes : rq.url = "/old"}
RingRequestWillBeSent ==
    /\ nextRef <= MaxRingRequests
    /\ \E p \in RequestWillBeSentEvents(RingIds, RingShapes, {None},
                                        {ScriptInitiator}, clock) :
          handleRequestWillBeSent(p) /\ UNCHANGED redirectsSeen
RingLoadingFinished ==
    /\ BagCardinality(fetches) < MaxRingFetches
    /\ \E p \in LoadingFinishedEvents(RingIds, clock) : handleLoadingFinished(p, TRUE)
RingLoadingFailed ==
    \E p \in LoadingFailedEvents(RingIds, clock) : handleLoadingFailed(p)
RingSettleBodyFetch ==
    \E f \in BagToSet(fetches) : settleBodyFetch(f, [kind |-> "null"], FALSE)

NextRing ==
    \/ RingRequestWillBeSent
    \/ RingLoadingFinished
    \/ RingLoadingFailed
    \/ RingSettleBodyFetch

SpecRing == Init /\ [][NextRing]_vars

\* SpecPair: one CORS preflight P whose initiator names the target T; each
\* request-sent arrives once, in either order, and the two lifecycles
\* interleave freely
P == "r1"
T == "r2"
Unknown(id) ==
    /\ ~MapHas(pending, id)
    /\ ~MapHas(requests, id)
    /\ \A f \in BagToSet(fetches) : f.requestId # id
PairShapes == {rq \in RequestShapes : rq.url = "/new"}
PairResponses == {rs \in ResponseShapes : rs.status = 200}
PairOutcomes == {o \in FetchOutcomes : o.kind = "null"}
PairPreflightWillBeSent ==
    /\ clock < MaxClockPair
    /\ Unknown(P)
    /\ \E p \in RequestWillBeSentEvents({P}, PairShapes, {None},
                    {[type |-> "preflight", requestId |-> Some(T)]}, clock + 1) :
          handleRequestWillBeSent(p) /\ UNCHANGED redirectsSeen
PairTargetWillBeSent ==
    /\ clock < MaxClockPair
    /\ Unknown(T)
    /\ \E p \in RequestWillBeSentEvents({T}, PairShapes, {None},
                                        {ScriptInitiator}, clock + 1) :
          handleRequestWillBeSent(p) /\ UNCHANGED redirectsSeen
PairResponseReceived ==
    /\ clock < MaxClockPair
    /\ \E p \in ResponseReceivedEvents(Ids, PairResponses, clock + 1) :
          handleResponseReceived(p)
PairLoadingFinished ==
    /\ clock < MaxClockPair
    /\ \E p \in LoadingFinishedEvents(Ids, clock + 1), cb \in BOOLEAN :
          handleLoadingFinished(p, cb)
PairLoadingFailed ==
    /\ clock < MaxClockPair
    /\ \E p \in LoadingFailedEvents(Ids, clock + 1) : handleLoadingFailed(p)
PairSettleBodyFetch ==
    \E f \in BagToSet(fetches), o \in PairOutcomes : settleBodyFetch(f, o, FALSE)

NextPair ==
    \/ PairPreflightWillBeSent
    \/ PairTargetWillBeSent
    \/ PairResponseReceived
    \/ PairLoadingFinished
    \/ PairLoadingFailed
    \/ PairSettleBodyFetch

SpecPair == Init /\ [][NextPair]_vars

\* SpecPreflight: three requests, each sent once, whose initiator is a script
\* or a CORS preflight naming one of the other two IDs as its target (several
\* preflights for one target, a target that is itself a preflight), each
\* finalized by loading-finished or loading-failed
PreflightShapes == {rq \in RequestShapes : rq.url = "/new"}
PreflightRequestWillBeSent ==
    /\ clock < MaxClockPreflight
    /\ \E p \in RequestWillBeSentEvents(RingIds, PreflightShapes, {None},
                                        Initiators(RingIds), clock + 1) :
          /\ Unknown(p.requestId)
          /\ p.initiator.requestId # Some(p.requestId)
          /\ handleRequestWillBeSent(p) /\ UNCHANGED redirectsSeen
PreflightLoadingFinished ==
    /\ clock < MaxClockPreflight
    /\ \E p \in LoadingFinishedEvents(RingIds, clock + 1) :
          handleLoadingFinished(p, FALSE)
PreflightLoadingFailed ==
    /\ clock < MaxClockPreflight
    /\ \E p \in LoadingFailedEvents(RingIds, clock + 1) : handleLoadingFailed(p)

NextPreflight ==
    \/ PreflightRequestWillBeSent
    \/ PreflightLoadingFinished
    \/ PreflightLoadingFailed

SpecPreflight == Init /\ [][NextPreflight]_vars

\* SpecCallback: lifecycles of two requests that end in loading-finished or
\* loading-failed, with onRequestComplete set to a callback that may throw
CallbackShapes == {rq \in RequestShapes : rq.url = "/old"}
CallbackOutcomes == {o \in FetchOutcomes : o.kind \in {"reject", "null"}}
CallbackRequestWillBeSent ==
    /\ clock < MaxClockCallback
    /\ \E p \in RequestWillBeSentEvents(Ids, CallbackShapes, {None},
                                        {ScriptInitiator}, clock + 1) :
          handleRequestWillBeSent(p) /\ UNCHANGED redirectsSeen
CallbackLoadingFinished ==
    /\ clock < MaxClockCallback
    /\ \E p \in LoadingFinishedEvents(Ids, clock + 1), cb \in BOOLEAN :
          handleLoadingFinished(p, cb)
CallbackLoadingFailed ==
    /\ clock < MaxClockCallback
    /\ \E p \in LoadingFailedEvents(Ids, clock + 1) : handleLoadingFailed(p)
CallbackSettleBodyFetch ==
    \E f \in BagToSet(fetches), o \in CallbackOutcomes, throws \in BOOLEAN :
        settleBodyFetch(f, o, throws)

NextCallback ==
    \/ CallbackRequestWillBeSent
    \/ CallbackLoadingFinished
    \/ CallbackLoadingFailed
    \/ CallbackSettleBodyFetch

SpecCallback == Init /\ [][NextCallback]_vars

\* SpecMime: lifecycles of two requests whose responses carry every kind of
\* media type shouldFetchBody distinguishes, finished with or without a
\* getResponseBody callback
MimeRequestShapes == {rq \in RequestShapes : rq.url = "/old"}
MimeResponseShapes ==
    { [status |-> 200, statusText |-> "OK", headers |-> "h-any",
       mimeType |-> m, type |-> None] :
         m \in BinaryMimeTypes \cup {"application/json"} }
MimeOutcomes == {o \in FetchOutcomes : o.kind = "null" \/ (o.kind = "body" /\ Len(o.body) = 1)}
MimeRequestWillBeSent ==
    /\ clock < MaxClockMime
    /\ \E p \in RequestWillBeSentEvents(Ids, MimeRequestShapes, {None},
                                        {ScriptInitiator}, clock + 1) :
          handleRequestWillBeSent(p) /\ UNCHANGED redirectsSeen
MimeResponseReceived ==
    /\ clock < MaxClockMime
    /\ \E p \in ResponseReceivedEvents(Ids, MimeResponseShapes, clock + 1) :
          handleResponseReceived(p)
MimeLoadingFinished ==
    /\ clock < MaxClockMime
    /\ \E p \in LoadingFinishedEvents(Ids, clock + 1), cb \in BOOLEAN :
          handleLoadingFinished(p, cb)
MimeSettleBodyFetch ==
    \E f \in BagToSet(fetches), o \in MimeOutcomes : settleBodyFetch(f, o, FALSE)

NextMime ==
    \/ MimeRequestWillBeSent
    \/ MimeResponseReceived
    \/ MimeLoadingFinished
    \/ MimeSettleBodyFetch

SpecMime == Init /\ [][NextMime]_vars

\* SpecCorrelate: actions are recorded, all at one instant, and
\* correlateRequest is called for requests that start 11 and 10 ms before
\* that instant, at it, and maxCorrelationWindow and maxCorrelationWindow + 1
\* ms after it, with and without a stack trace, a preflight initiator and a
\* correlated request that ended shortly before
ActionIds == <<"a1", "a2", "a3", "a4">>
ActionInputs(id) ==
    { [id |-> id, type |-> ty, targetDescription |-> d, timestamp |-> 5000] :
        ty \in {"click", "submit"}, d \in {"Save changes", "Open menu"} }
Deltas == {-11, -10, 0, maxCorrelationWindow, maxCorrelationWindow + 1}
CorrelateInitiators ==
    { [type |-> "script", requestId |-> None, stack |-> None],
      [type |-> "script", requestId |-> None, stack |-> Some(<<None, Some("Click")>>)],
      [type |-> "preflight", requestId |-> Some("p1"), stack |-> None],
      [type |-> "preflight", requestId |-> Some("p1"),
       stack |-> Some(<<Some("Click")>>)] }
CorrelateRequests ==
    { [id |-> "q1", url |-> u, method |-> m, resourceType |-> "xhr", initiator |-> ini,
       startTime |-> 5000 + d, endTime |-> None, correlatedActionId |-> None] :
        u \in {"https://api.example.com/items", "https://example.com/analytics"},
        m \in {"POST", "GET"}, ini \in CorrelateInitiators, d \in Deltas }
CorrelatedParent ==
    [id |-> "p1", url |-> "https://api.example.com/items", method |-> "GET",
     resourceType |-> "xhr",
     initiator |-> [type |-> "script", requestId |-> None, stack |-> None],
     startTime |-> 4900, endTime |-> Some(4950), correlatedActionId |-> Some("a1")]
AllRequestsInputs(request) == { <<request>>, <<CorrelatedParent, request>> }

recordAction(action) ==
    /\ actions' = Append(actions, action)
    /\ UNCHANGED <<options, captureVars, callVars>>

\* Correlator.clear()
clearActions ==
    /\ actions' = <<>>
    /\ UNCHANGED <<options, captureVars, callVars>>

\* what an earlier correlateRequest returned is dropped when the recorded
\* actions change
CorrelateRecordAction ==
    /\ Len(actions) < MaxActions
    /\ \E a \in ActionInputs(ActionIds[Len(actions) + 1]) : recordAction(a)
    /\ correlation' = None
CorrelateRequest ==
    \E request \in CorrelateRequests :
        \E allRequests \in AllRequestsInputs(request) :
            /\ correlation' = Some([request |-> request, allRequests |-> allRequests,
                                    actions |-> actions,
                                    result |-> correlateRequest(request, allRequests)])
            /\ UNCHANGED <<actions, options, captureVars, callVars>>
CorrelateClear == clearActions /\ correlation' = None

NextCorrelate ==
    \/ CorrelateRecordAction
    \/ CorrelateRequest
    \/ CorrelateClear

SpecCorrelate == Init /\ [][NextCorrelate]_vars

\* SpecOptions: SpecCorrelate for a correlator constructed with a minConfidence
\* of 0.6 or 0.9, or with none
OptionsInputs ==
    { <<>>, [minConfidence |-> 600000000], [minConfidence |-> 900000000] }
InitOptions == \E given \in OptionsInputs : Constructed(given)
SpecOptions == InitOptions /\ [][NextCorrelate]_vars

\* SpecStack: actions of the four types that a user event can be compatible
\* with are recorded at two instants 20 ms apart, and correlateRequest is
\* called for script-initiated requests whose stack trace leads to a user
\* event at several depths (or to none, or past the 50-level limit), starting
\* before, inside and after the windows of the two instants
StackActionInputs(id) ==
    { [id |-> id, type |-> ty, targetDescription |-> "Open menu", timestamp |-> t] :
        ty \in {"click", "submit", "navigate", "type"}, t \in {5000, 5020} }
DeepStack == [i \in 1..51 |-> IF i = 51 THEN Some("click") ELSE None]
Stacks ==
    { None,
      Some(<<Some("click")>>),
      Some(<<None, Some("Click")>>),
      Some(<<None, Some("load"), None, None, None, None, Some("submit")>>),
      Some(<<Some("input")>>),
      Some(<<None, None, Some("change")>>),
      Some(<<Some("keydown")>>),
      Some(<<Some("mousedown"), Some("click")>>),
      Some(DeepStack) }
StackRequests ==
    { [id |-> "q1", url |-> "https://api.example.com/items", method |-> "GET",
       resourceType |-> "xhr",
       initiator |-> [type |-> "script", requestId |-> None, stack |-> st],
       startTime |-> t, endTime |-> None, correlatedActionId |-> None] :
        st \in Stacks, t \in {4989, 4990, 5010, 5030, 7000, 7021} }

StackRecordAction ==
    /\ Len(actions) < MaxActions
    /\ \E a \in StackActionInputs(ActionIds[Len(actions) + 1]) : recordAction(a)
    /\ correlation' = None
StackCorrelateRequest ==
    \E request \in StackRequests :
        /\ correlation' = Some([request |-> request, allRequests |-> <<request>>,
                                actions |-> actions,
                                result |-> correlateRequest(request, <<request>>)])
        /\ UNCHANGED <<actions, options, captureVars, callVars>>
StackClear == clearActions /\ correlation' = None

NextStack ==
    \/ StackRecordAction
    \/ StackCorrelateRequest
    \/ StackClear

SpecStack == Init /\ [][NextStack]_vars

\* SpecChain: one or two click actions are recorded at one instant (and may
\* be cleared), and correlateRequest is called for a request that starts 20
\* or 11 ms before that instant (outside its window) or 10 ms before it
\* (inside), script-initiated or a preflight, together with requests that
\* ended before it: attributed to a1 or a2 or to nothing, with and without a
\* known end time, 0 to 109 ms before the request starts
ChainActionInputs(id) ==
    { [id |-> id, type |-> "click", targetDescription |-> "Open menu",
       timestamp |-> 5000] }
ChainParent(id, endTime, correlatedActionId) ==
    [id |-> id, url |-> "https://api.example.com/items", method |-> "GET",
     resourceType |-> "xhr",
     initiator |-> [type |-> "script", requestId |-> None, stack |-> None],
     startTime |-> 4800, endTime |-> endTime, correlatedActionId |-> correlatedActionId]
EarlyParent == ChainParent("p1", Some(4950), Some("a1"))
LateParent == ChainParent("p2", Some(4980), Some("a2"))
OpenParent == ChainParent("p3", None, Some("a1"))
UnattributedParent == ChainParent("p4", Some(4985), None)
OldParent == ChainParent("p5", Some(4880), Some("a2"))
ChainParents ==
    { <<>>,
      <<EarlyParent, LateParent, OldParent>>,
      <<LateParent, EarlyParent>>,
      <<OldParent, OpenParent, UnattributedParent>>,
      <<UnattributedParent, EarlyParent>>,
      <<OpenParent, UnattributedParent>> }
ChainInitiators ==
    { [type |-> "script", requestId |-> None, stack |-> None],
      [type |-> "preflight", requestId |-> Some("p4"), stack |-> None],
      [type |-> "preflight", requestId |-> Some("p1"), stack |-> None] }
ChainRequests ==
    { [id |-> "q1", url |-> "https://api.example.com/items", method |-> "GET",
       resourceType |-> "xhr", initiator |-> ini,
       startTime |-> t, endTime |-> None, correlatedActionId |-> None] :
        ini \in ChainInitiators, t \in {4980, 4989, 4990} }

ChainRecordAction ==
    /\ Len(actions) < MaxActions
    /\ \E a \in ChainActionInputs(ActionIds[Len(actions) + 1]) : recordAction(a)
    /\ correlation' = None
ChainCorrelateRequest ==
    \E request \in ChainRequests, parents \in ChainParents :
        /\ correlation' =
              Some([request |-> request, allRequests |-> parents \o <<request>>,
                    actions |-> actions,
                    result |-> correlateRequest(request, parents \o <<request>>)])
        /\ UNCHANGED <<actions, options, captureVars, callVars>>
ChainClear == clearActions /\ correlation' = None

NextChain ==
    \/ ChainRecordAction
    \/ ChainCorrelateRequest
    \/ ChainClear

SpecChain == Init /\ [][NextChain]_vars

\* SpecAttribute: request objects are created and handed, all of them in the
\* order of their creation, to correlateAction and correlateAll, while a click
\* and then a submit that happened 5 ms before it are recorded.  The requests
\* start at the click, 10 and 50 ms after it, and outside its window 50 ms
\* after the end of the one that started 50 ms after it.
SuppliedIds == <<"r1", "r2", "r3", "r4">>
SuppliedShapes ==
    { [method |-> "POST", startTime |-> 5010, endTime |-> Some(5040)],
      [method |-> "GET", startTime |-> 5000, endTime |-> Some(5005)],
      [method |-> "GET", startTime |-> 5050, endTime |-> Some(7050)],
      [method |-> "GET", startTime |-> 7100, endTime |-> Some(7150)] }
SuppliedRequest(id, shape) ==
    [id |-> id, url |-> "https://api.example.com/items", method |-> shape.method,
     resourceType |-> "xhr", status |-> 200,
     initiator |-> [type |-> "script", requestId |-> None, stack |-> None],
     requestHeaders |-> <<>>, responseBody |-> None,
     startTime |-> shape.startTime, endTime |-> shape.endTime,
     redirectChain |-> <<>>, preflightRequestId |-> None,
     correlatedActionId |-> None, correlationConfidence |-> None,
     correlationMethod |-> None]
AttributeActionInputs ==
    << [id |-> "a1", type |-> "click", targetDescription |-> "Open menu",
        timestamp |-> 5000, resultingRequestIds |-> <<>>],
       [id |-> "a2", type |-> "submit", targetDescription |-> "Save changes",
        timestamp |-> 4995, resultingRequestIds |-> <<>>],
       [id |-> "a3", type |-> "click", targetDescription |-> "Open menu",
        timestamp |-> 5000, resultingRequestIds |-> <<>>] >>
AttributeActionIds == {"a1", "a2", "a3"}
AllRefs == [i \in 1..Len(heap) |-> i]

AttributeNewRequest ==
    /\ Len(heap) < MaxSupplied
    /\ \E shape \in SuppliedShapes :
          heap' = Append(heap, SuppliedRequest(SuppliedIds[Len(heap) + 1], shape))
    /\ nextRef' = nextRef + 1
    /\ correlation' = None
    /\ UNCHANGED <<requests, requestOrder, nextIndex, timestampOffset, pending,
                   fetches, clock, staleRefs, redirectsSeen, lastEvicted,
                   actions, options, callVars>>
AttributeRecordAction ==
    /\ Len(actions) < MaxActions
    /\ recordAction(AttributeActionInputs[Len(actions) + 1])
    /\ correlation' = None
AttributeCorrelateAction ==
    \E actionId \in AttributeActionIds :
        \E call \in {correlateAction(actionId, AllRefs)} :
            /\ heap' = call.heap
            /\ actions' = call.actions
            /\ correlation' = Some([call |-> "correlateAction", actionId |-> actionId,
                                    allRequests |-> AllRefs, heap |-> heap,
                                    actions |-> actions, result |-> call.result])
            /\ UNCHANGED <<requests, requestOrder, nextIndex, timestampOffset, pending,
                           nextRef, fetches, clock, staleRefs, redirectsSeen,
                           lastEvicted, options, callVars>>
AttributeCorrelateAll ==
    \E call \in {correlateAll(AllRefs)} :
        /\ heap' = call.heap
        /\ actions' = call.actions
        /\ correlation' = Some([call |-> "correlateAll", allRequests |-> AllRefs,
                                heap |-> heap, actions |-> actions,
                                result |-> call.result])
        /\ UNCHANGED <<requests, requestOrder, nextIndex, timestampOffset, pending,
                       nextRef, fetches, clock, staleRefs, redirectsSeen,
                       lastEvicted, options, callVars>>

NextAttribute ==
    \/ AttributeNewRequest
    \/ AttributeRecordAction
    \/ AttributeCorrelateAction
    \/ AttributeCorrelateAll

SpecAttribute == Init /\ [][NextAttribute]_vars

\* SpecSameSet: SpecAttribute where the requests are all supplied before the
\* first call that attributes one, so that every such call gets the same set
NothingAttributed ==
    /\ \A ref \in 1..Len(heap) : heap[ref].correlatedActionId = None
    /\ \A i \in 1..Len(actions) : actions[i].resultingRequestIds = <<>>
SameSetNewRequest == NothingAttributed /\ AttributeNewRequest

NextSameSet ==
    \/ SameSetNewRequest
    \/ AttributeRecordAction
    \/ AttributeCorrelateAction
    \/ AttributeCorrelateAll

SpecSameSet == Init /\ [][NextSameSet]_vars

\* SpecPure: SpecAttribute, with calls of correlateRequest for one of the
\* supplied objects and all of them
\* a correlateRequest that attributes the request it matched
correlateRequestAttributes(i, refs) ==
    LET match == correlateRequest(heap[refs[i]], Values(heap, refs))
    IN  [heap |-> IF match = None THEN heap ELSE Attribute(heap, refs[i], Get(match)),
         actions |-> actions,
         result |-> match]

\* correlateRequest(allRequests[i], allRequests): the heap and the actions it
\* leaves (it has no assignment to a field of a request or of an action, and
\* no call that changes this.actions) and what it returns
correlateRequestCall(i, refs) ==
    [heap |-> heap,
     actions |-> actions,
     result |-> correlateRequest(heap[refs[i]], Values(heap, refs))]

PureCorrelateRequest(i) ==
    /\ i \in 1..Len(heap)
    /\ \E call \in {correlateRequestCall(i, AllRefs)} :
          /\ heap' = call.heap
          /\ actions' = call.actions
          /\ correlation' = Some([call |-> "correlateRequest", request |-> i,
                                  allRequests |-> AllRefs, heap |-> heap,
                                  actions |-> actions, result |-> call.result])
    /\ UNCHANGED <<requests, requestOrder, nextIndex, timestampOffset, pending,
                   nextRef, fetches, clock, staleRefs, redirectsSeen,
                   lastEvicted, options, callVars>>

NextPure ==
    \/ AttributeNewRequest
    \/ AttributeRecordAction
    \/ AttributeCorrelateAction
    \/ AttributeCorrelateAll
    \/ \E i \in 1..MaxSupplied : PureCorrelateRequest(i)

SpecPure == Init /\ [][NextPure]_vars

\* SpecAuthFlow: detectChains is called for groups of requests: POSTs to an
\* auth-like URL that return a token under one of the names read, and
\* requests like them but for one property (the method, the URL, the status,
\* the body), followed or not by requests that carry the token, its first 20
\* or its first 19 characters in an Authorization header
Bearer(chars) == <<0, 0>> \o chars
AuthShape(url, method, status, responseBody, startTime) ==
    [url |-> url, method |-> method, status |-> status,
     responseBody |-> responseBody, requestHeaders |-> <<>>, startTime |-> startTime]
UserShape(requestHeaders, startTime) ==
    [url |-> "https://api.example.com/items", method |-> "GET", status |-> 200,
     responseBody |-> Some("{\"ok\":true}"), requestHeaders |-> requestHeaders,
     startTime |-> startTime]
GroupShapes ==
    { AuthShape("https://api.example.com/auth/login", "POST", 200,
                Some("{\"token\":TOKEN21}"), 100),
      AuthShape("https://api.example.com/OAuth", "POST", 299,
                Some("{\"token\":\"\",\"access_token\":TOKEN21}"), 100),
      AuthShape("https://api.example.com/auth/login", "POST", 200,
                Some("{\"data\":{\"token\":TOKEN21}}"), 150),
      AuthShape("https://api.example.com/auth/login", "POST", 300,
                Some("{\"token\":TOKEN21}"), 100),
      AuthShape("https://api.example.com/auth/login", "GET", 200,
                Some("{\"token\":TOKEN21}"), 100),
      AuthShape("https://api.example.com/items", "POST", 200,
                Some("{\"token\":TOKEN21}"), 100),
      AuthShape("https://api.example.com/auth/login", "POST", 200,
                Some("{\"token\":123,\"jwt\":TOKEN21}"), 100),
      AuthShape("https://api.example.com/auth/login", "POST", 200,
                Some("<html>"), 100),
      AuthShape("https://api.example.com/auth/login", "POST", 200, None, 100),
      UserShape([Authorization |-> Bearer(Substring(BearerToken, 20))], 200),
      UserShape([authorization |-> BearerToken], 150),
      UserShape([Authorization |-> Bearer(Substring(BearerToken, 19))], 200),
      UserShape(<<>>, 200) }
GroupIds == <<"g1", "g2", "g3", "g4">>
GroupRequest(id, shape) ==
    [id |-> id, url |-> shape.url, method |-> shape.method, status |-> shape.status,
     responseBody |-> shape.responseBody, requestHeaders |-> shape.requestHeaders,
     startTime |-> shape.startTime, endTime |-> Some(shape.startTime + 20),
     redirectChain |-> <<>>, preflightRequestId |-> None]
\* the groups of n requests
Groups(n) ==
    { [i \in 1..n |-> GroupRequest(GroupIds[i], shapes[i])] :
         shapes \in [1..n -> GroupShapes] }

\* one call in a behaviour
DetectChains ==
    /\ correlation = None
    /\ \E n \in 0..MaxGroup : \E group \in Groups(n) :
        /\ correlation' = Some([call |-> "detectChains", requests |-> group,
                                result |-> detectChains(group)])
        /\ UNCHANGED <<actions, options, captureVars, callVars>>

NextAuthFlow == DetectChains

SpecAuthFlow == Init /\ [][NextAuthFlow]_vars

\* SpecSequential: detectChains is called for groups of requests that differ
\* in their start times and in their end times
StartTimes == {100, 150, 151}
Durations == {0, 50, 51}
SequentialShapes ==
    { [startTime |-> st, endTime |-> None] : st \in StartTimes }
      \cup { [startTime |-> st, endTime |-> Some(st + d)] :
                st \in StartTimes, d \in Durations }
SequentialRequest(id, shape) ==
    [id |-> id, url |-> "https://api.example.com/items", method |-> "GET",
     status |-> 200, responseBody |-> Some("{\"ok\":true}"), requestHeaders |-> <<>>,
     startTime |-> shape.startTime, endTime |-> shape.endTime,
     redirectChain |-> <<>>, preflightRequestId |-> None]
SequentialGroups(n) ==
    { [i \in 1..n |-> SequentialRequest(GroupIds[i], shapes[i])] :
         shapes \in [1..n -> SequentialShapes] }

DetectSequentialChains ==
    /\ correlation = None
    /\ \E n \in 0..MaxGroup : \E group \in SequentialGroups(n) :
        /\ correlation' = Some([call |-> "detectChains", requests |-> group,
                                result |-> detectChains(group)])
        /\ UNCHANGED <<actions, options, captureVars, callVars>>

NextSequential == DetectSequentialChains

SpecSequential == Init /\ [][NextSequential]_vars

\* ------------------------------------------------- waitForNetworkQuiet
\* the period of the poll, and the default timeout of the wait, in ms
checkInterval == 100
timeoutMs == 10000
\* the quiet periods the driver's tools pass to the wait
QuietPeriods == {500, 800, 1000}

\* waitForNetworkQuiet(quietPeriodMs): the locals, and the first timer
waitForNetworkQuiet(quietPeriodMs) ==
    /\ driver.call = None
    /\ driver' = [driver EXCEPT !.call =
                     Some([quietPeriodMs |-> quietPeriodMs,
                           timeoutMs |-> timeoutMs,
                           startTime |-> driver.now,
                           lastActivityTime |-> driver.now,
                           lastPending |-> driver.pendingCount,
                           timer |-> Some(driver.now + checkInterval),
                           resolved |-> FALSE])]
    /\ UNCHANGED <<captureVars, correlatorVars, walk, manager>>

Waiting == IsSome(driver.call) /\ ~Get(driver.call).resolved

\* the timer callback: one poll of the in-flight count
check ==
    /\ Waiting
    /\ LET c == Get(driver.call)
           now == driver.now
           currentPending == driver.pendingCount
           changed == currentPending # c.lastPending
           lastActivityTime == IF changed THEN now ELSE c.lastActivityTime
           lastPending == IF changed THEN currentPending ELSE c.lastPending
           resolve == \/ currentPending = 0
                         /\ now - lastActivityTime >= c.quietPeriodMs
                      \/ now - c.startTime >= c.timeoutMs
       IN  /\ now >= Get(c.timer)
           /\ driver' = [driver EXCEPT !.call =
                 Some([c EXCEPT !.lastActivityTime = lastActivityTime,
                                !.lastPending = lastPending,
                                !.resolved = resolve,
                                !.timer = IF resolve THEN None
                                          ELSE Some(now + checkInterval)])]
    /\ UNCHANGED <<captureVars, correlatorVars, walk, manager>>

\* Date.now() is read in steps of the check interval; a timer fires when it is
\* due or up to MaxLate steps later
DateAdvances ==
    /\ Waiting
    /\ driver.now < Get(Get(driver.call).timer) + MaxLate * checkInterval
    /\ driver' = [driver EXCEPT
                     !.now = @ + checkInterval,
                     !.busyAt = IF driver.pendingCount > 0
                                THEN Some(driver.now + checkInterval) ELSE @]
    /\ UNCHANGED <<captureVars, correlatorVars, walk, manager>>

\* the capture's handlers, by what they do to pendingCount: a request enters
\* the in-flight map, a request leaves it
PendingGrows ==
    /\ driver.call = None \/ Waiting
    /\ driver.pendingCount < MaxPendingCount
    /\ driver' = [driver EXCEPT !.pendingCount = @ + 1,
                                !.busyAt = Some(driver.now)]
    /\ UNCHANGED <<captureVars, correlatorVars, walk, manager>>
PendingShrinks ==
    /\ driver.call = None \/ Waiting
    /\ driver.pendingCount > 0
    /\ driver' = [driver EXCEPT !.pendingCount = @ - 1,
                                !.busyAt = Some(driver.now)]
    /\ UNCHANGED <<captureVars, correlatorVars, walk, manager>>

NextQuiet ==
    \/ \E quietPeriodMs \in QuietPeriods : waitForNetworkQuiet(quietPeriodMs)
    \/ check
    \/ DateAdvances
    \/ PendingGrows
    \/ PendingShrinks

\* SpecQuiet: one wait; the clock advances and a due timer fires
SpecQuiet ==
    Init /\ [][NextQuiet]_vars /\ WF_vars(check) /\ WF_vars(DateAdvances)

\* ---------------------------------- BrowserManager: navigate, click, type
\* Date.now(): 5000 when the manager is constructed
DateNow == 5000 + driver.now

\* `action_${++this.actionCounter}`, for the counts that occur
ActionIdOf(n) ==
    CASE n = 1 -> "action_1"
      [] n = 2 -> "action_2"
      [] n = 3 -> "action_3"
      [] n = 4 -> "action_4"

\* the tools, with the type and the description they give to createAction:
\* `Navigate to ${url}`, the description of the element, and `Input: ${selector}`
\* for an element without a description
Tools ==
    { [tool |-> "navigate", type |-> "navigate",
       description |-> "Navigate to https://example.com/"],
      [tool |-> "click", type |-> "click", description |-> "Open menu"],
      [tool |-> "type", type |-> "type", description |-> "Input: #q"] }

\* createAction(type, selector, description), with one history field:
\* createdBy, the call that created the object
createAction(type, description, call) ==
    [id |-> ActionIdOf(manager.actionCounter + 1), type |-> type,
     targetDescription |-> description, timestamp |-> DateNow,
     resultingRequestIds |-> <<>>, createdBy |-> call]

\* navigate, click or type up to its await of the page: the action is created
\* and recorded, and the pre-action timestamp is read
ToolCalled(t) ==
    /\ Len(manager.calls) < MaxCalls
    /\ actions' = Append(actions,
                         createAction(t.type, t.description, Len(manager.calls) + 1))
    /\ manager' = [actionCounter |-> manager.actionCounter + 1,
                   calls |-> Append(manager.calls,
                                [tool |-> t.tool,
                                 actionId |-> ActionIdOf(manager.actionCounter + 1),
                                 preTimestamp |-> DateNow,
                                 returned |-> FALSE, result |-> None,
                                 resultFor |-> 0])]
    /\ UNCHANGED <<correlation, options, captureVars, driver, walk>>

\* getRequestsSince(timestampMs)
getRequestsSince(timestampMs) ==
    getRequests(Some([urlPattern |-> None, method |-> None, statusMin |-> None,
                      statusMax |-> None, resourceType |-> None,
                      sinceTimestamp |-> Some(timestampMs), limit |-> None]))

\* the requests a call passes to correlateAction
requestsPassed(call) ==
    IF call.tool = "navigate" THEN getRequests(None)
    ELSE IF Len(getRequestsSince(call.preTimestamp)) > 0
         THEN getRequestsSince(call.preTimestamp)
         ELSE getRequests(None)

\* the return of correlateAction's value, found being the action object the
\* log holds under the call's action ID
ToolReturns(c, found, ret) ==
    /\ heap' = ret.heap
    /\ actions' = ret.actions
    /\ manager' = [manager EXCEPT !.calls[c] =
                      [@ EXCEPT !.returned = TRUE,
                                !.result = ret.result,
                                !.resultFor = IF ret.result = None THEN 0
                                              ELSE Get(found).createdBy]]
    /\ UNCHANGED <<requests, requestOrder, nextIndex, timestampOffset, pending,
                   nextRef, fetches, clock, staleRefs, redirectsSeen,
                   lastEvicted, correlation, options, driver, walk>>

\* navigate, click or type after its awaits of the page and of
\* waitForNetworkQuiet: it returns correlateAction(action.id, ...)
ToolResumed(c) ==
    /\ c \in 1..Len(manager.calls)
    /\ ~manager.calls[c].returned
    /\ ToolReturns(c, findAction(Some(manager.calls[c].actionId)),
                   correlateAction(manager.calls[c].actionId,
                                   requestsPassed(manager.calls[c])))

\* clearCapture(): capture.clear(), correlator.clear(), actionCounter = 0
clearCapture ==
    /\ requests' = <<>>
    /\ requestOrder' = <<>>
    /\ pending' = <<>>
    /\ nextIndex' = 0
    /\ timestampOffset' = None
    /\ heap' = Collect(heap, <<>>, <<>>, fetches)
    /\ staleRefs' = DOMAIN heap'
    /\ lastEvicted' = None
    /\ actions' = <<>>
    /\ manager' = [manager EXCEPT !.actionCounter = 0]
    /\ UNCHANGED <<nextRef, fetches, clock, redirectsSeen, correlation, options,
                   driver, walk>>

\* the capture stores a request that started at the current time and has
\* finished
RequestCaptured ==
    /\ nextRef <= MaxSupplied
    /\ heap' = (nextRef :> (SuppliedRequest(SuppliedIds[nextRef],
                                            [method |-> "GET", startTime |-> DateNow,
                                             endTime |-> Some(DateNow)])
                              @@ [index |-> nextIndex])) @@ heap
    /\ requests' = MapSet(requests, SuppliedIds[nextRef], nextRef)
    /\ requestOrder' = Append(requestOrder, SuppliedIds[nextRef])
    /\ nextIndex' = nextIndex + 1
    /\ nextRef' = nextRef + 1
    /\ UNCHANGED <<timestampOffset, pending, fetches, clock, staleRefs,
                   redirectsSeen, lastEvicted, correlatorVars, callVars>>

\* Date.now() advances, in steps of 5 ms
ManagerDateAdvances ==
    /\ driver.now < MaxTicks * 5
    /\ driver' = [driver EXCEPT !.now = @ + 5]
    /\ UNCHANGED <<captureVars, correlatorVars, walk, manager>>

NextManager ==
    \/ \E t \in Tools : ToolCalled(t)
    \/ \E c \in 1..MaxCalls : ToolResumed(c)
    \/ clearCapture
    \/ RequestCaptured
    \/ ManagerDateAdvances

\* SpecManager: navigate, click and type calls that overlap one another and
\* clearCapture calls, while requests are captured
SpecManager == Init /\ [][NextManager]_vars

\* SpecOffset: lifecycles of two requests, excluded or not, with redirects, and
\* clear(), while the wall clock of the event source is stepped against its
\* monotonic clock: wallTime - timestamp is not the same in every request-sent
WallClockSteps == {0, 1}
OffsetShapes == {rq \in RequestShapes : rq.url \in {"/old", "/track"}}
OffsetResponses == {rs \in ResponseShapes : rs.status = 200}
OffsetRequestWillBeSentEvents(t) ==
    { [p EXCEPT !.wallTime = @ + step] :
         p \in RequestWillBeSentEvents(Ids, OffsetShapes, RedirectResponses,
                                       {ScriptInitiator}, t),
         step \in WallClockSteps }
OffsetRequestWillBeSent ==
    /\ clock < MaxClockOffset
    /\ \E p \in OffsetRequestWillBeSentEvents(clock + 1) :
          handleRequestWillBeSent(p) /\ UNCHANGED redirectsSeen
OffsetResponseReceived ==
    /\ clock < MaxClockOffset
    /\ \E p \in ResponseReceivedEvents(Ids, OffsetResponses, clock + 1) :
          handleResponseReceived(p)
OffsetLoadingFinished ==
    /\ clock < MaxClockOffset
    /\ \E p \in LoadingFinishedEvents(Ids, clock + 1) : handleLoadingFinished(p, FALSE)
OffsetLoadingFailed ==
    /\ clock < MaxClockOffset
    /\ \E p \in LoadingFailedEvents(Ids, clock + 1) : handleLoadingFailed(p)
OffsetClear == clear

NextOffset ==
    \/ OffsetRequestWillBeSent
    \/ OffsetResponseReceived
    \/ OffsetLoadingFinished
    \/ OffsetLoadingFailed
    \/ OffsetClear

SpecOffset == Init /\ [][NextOffset]_vars

\* SpecUnknown: request-sent events for one ID only, and response-received,
\* loading-finished and loading-failed events for that ID and for an ID no
\* request-sent has named
Known == "r1"
UnknownShapes == {rq \in RequestShapes : rq.url = "/old"}
UnknownRequestWillBeSent ==
    /\ clock < MaxClockUnknown
    /\ \E p \in RequestWillBeSentEvents({Known}, UnknownShapes, {None},
                                        {ScriptInitiator}, clock + 1) :
          handleRequestWillBeSent(p) /\ UNCHANGED redirectsSeen
UnknownResponseReceived ==
    /\ clock < MaxClockUnknown
    /\ \E p \in ResponseReceivedEvents(Ids, ResponseShapes, clock + 1) :
          handleResponseReceived(p)
UnknownLoadingFinished ==
    /\ clock < MaxClockUnknown
    /\ \E p \in LoadingFinishedEvents(Ids, clock + 1), cb \in BOOLEAN :
          handleLoadingFinished(p, cb)
UnknownLoadingFailed ==
    /\ clock < MaxClockUnknown
    /\ \E p \in LoadingFailedEvents(Ids, clock + 1) : handleLoadingFailed(p)
UnknownSettleBodyFetch ==
    \E f \in BagToSet(fetches) : settleBodyFetch(f, [kind |-> "null"], FALSE)

NextUnknown ==
    \/ UnknownRequestWillBeSent
    \/ UnknownResponseReceived
    \/ UnknownLoadingFinished
    \/ UnknownLoadingFailed
    \/ UnknownSettleBodyFetch

SpecUnknown == Init /\ [][NextUnknown]_vars

\* ---------------------------------------------- extractEventOrigin's loop
\* A stack trace is a set of objects 1..n, each with a description (or none)
\* and a parent (0: none); the call is given object 1. Parent links are
\* arbitrary, so a chain of parents can return to an object.
maxDepth == 50
WalkDescriptions == {None, Some("Click"), Some("load")}
LinkedStacks(n) ==
    { [description |-> d, parent |-> p] :
         d \in [1..n -> WalkDescriptions], p \in [1..n -> 0..n] }
\* a chain of 52 objects with one user event, hops parents away from object 1
LongStack(hops) ==
    [description |-> [i \in 1..(maxDepth + 2) |->
                         IF i = hops + 1 THEN Some("Click") ELSE Some("load")],
     parent |-> [i \in 1..(maxDepth + 2) |-> IF i = maxDepth + 2 THEN 0 ELSE i + 1]]

\* the while condition without the depth bound
loopContinuesWhileParent(current, depth) == current # 0

\* while (current && depth < maxDepth)
loopContinues(current, depth) == current # 0 /\ depth < maxDepth

\* extractEventOrigin(stack) is called
extractEventOriginCalled ==
    /\ walk = None
    /\ \E stack \in UNION {LinkedStacks(n) : n \in 1..MaxNodes}
                      \cup {LongStack(maxDepth - 1), LongStack(maxDepth)} :
          walk' = Some([stack |-> stack, current |-> 1, depth |-> 0,
                        inspected |-> 0, returned |-> FALSE, result |-> None])
    /\ UNCHANGED <<captureVars, correlatorVars, driver, manager>>

\* one test of the while condition, and the body or the return that follows;
\* inspected counts the objects whose description has been read
extractEventOriginStep ==
    /\ IsSome(walk) /\ ~Get(walk).returned
    /\ LET w == Get(walk)
           description == w.stack.description[w.current]
       IN  walk' = Some(
             IF ~loopContinues(w.current, w.depth)
             THEN [w EXCEPT !.returned = TRUE, !.result = None]
             ELSE IF IsSome(description)
                     /\ toLowerCase(Get(description)) \in USER_EVENT_TYPES
             THEN [w EXCEPT !.returned = TRUE,
                            !.inspected = @ + 1,
                            !.result = Some([eventType |-> toLowerCase(Get(description)),
                                             asyncDepth |-> w.depth])]
             ELSE [w EXCEPT !.current = w.stack.parent[w.current],
                            !.depth = @ + 1,
                            !.inspected = @ + 1])
    /\ UNCHANGED <<captureVars, correlatorVars, driver, manager>>

NextWalk ==
    \/ extractEventOriginCalled
    \/ extractEventOriginStep

\* SpecWalk: one call of extractEventOrigin, which runs as long as it can
SpecWalk == Init /\ [][NextWalk]_vars /\ WF_vars(extractEventOriginStep)

\* ------------------------------------------------------------------ claims
StoredRefs == MapVals(requests)
PendingRefs == MapVals(pending)
Last(q) == q[Len(q)]

\* C1: a body fetch that was outstanding when clear() ran never puts its
\* record into the store: no stored record is one that clear() invalidated.
C1_NoStaleRecordAfterClear == \A r \in StoredRefs : r \notin staleRefs

\* C2: the finalized store never holds more than maxRequests records.
C2_StoreWithinMaxRequests == size <= MaxRequests

\* C3: pendingCount + size never exceeds the next index counter.
C3_CountsWithinNextIndex == pendingCount + size <= nextIndex

\* C4 (as claimed): a record that leaves the store by eviction is the stored
\* record with the smallest index.
C4_EvictsSmallestIndex ==
    [][ \A k \in MapKeys(requests) \ MapKeys(requests') :
          \A r \in StoredRefs : heap[MapGet(requests, k)].index <= heap[r].index ]_vars

\* C4 (amended): an ID leaves the store only when the store holds maxRequests
\* records, at most one ID leaves in a step, and it is the ID at the head of
\* requestOrder, the queue of committed IDs in commit order.
C4_EvictsQueueHead ==
    [][ \A k \in MapKeys(requests) \ MapKeys(requests') :
          /\ size >= MaxRequests
          /\ requestOrder # <<>>
          /\ k = Head(requestOrder)
          /\ requestOrder' = Append(Tail(requestOrder), Last(requestOrder')) ]_vars

\* an eviction took place that removed a record while one with a smaller
\* index, finalized later, stays in the store
C4_Witness ==
    /\ IsSome(lastEvicted)
    /\ \E r \in StoredRefs : heap[r].index < Get(lastEvicted).index

\* C5: a commit to a store that holds maxRequests records evicts exactly one
\* record, the earliest inserted: the store afterwards is the store without
\* its first entry, with the committed record set.
C5_EvictsExactlyEarliestInserted ==
    [][ (requestOrder' # requestOrder /\ requestOrder' # <<>> /\ size >= MaxRequests)
          => requests' = MapSet(Tail(requests), Last(requestOrder'),
                                MapGet(requests', Last(requestOrder'))) ]_vars

Finalized(o) ==
    <<o.url, o.status, o.statusText, o.startTime, o.responseTime, o.endTime,
      o.duration, redirectChain(o), o.responseBody>>

\* C7: a visible record has its end time and duration stamped, and no later
\* step changes its URL, status, timing, redirect chain or response body.
C7_VisibleRecordIsFinal ==
    [][ \A r \in StoredRefs :
          /\ IsSome(heap[r].endTime) /\ IsSome(heap[r].duration)
          /\ r \in MapVals(requests') => Finalized(heap'[r]) = Finalized(heap[r]) ]_vars

\* what C8 says of the step that delivers the redirect-bearing request-sent p
\* for the in-flight record ref
RedirectCoalesced(p, ref) ==
    /\ pendingCount' = pendingCount /\ size' = size /\ nextIndex' = nextIndex
    /\ MapHas(pending', p.requestId) /\ MapGet(pending', p.requestId) = ref
    /\ heap'[ref].index = heap[ref].index
    /\ heap'[ref].entryChain =
          Append(heap[ref].entryChain,
                 [url |-> heap[ref].url,
                  status |-> Get(p.redirectResponse).status,
                  headers |-> Get(p.redirectResponse).headers])
    /\ heap'[ref].url = p.request.url
    /\ heap'[ref].method = p.request.method
    /\ heap'[ref].requestHeaders = p.request.headers
    /\ heap'[ref].requestBody = p.request.postData
    /\ heap'[ref].startTime = p.wallTime * 1000

RedirectEvents ==
    {p \in RequestWillBeSentEvents(Ids, RequestShapes, RedirectResponses,
                                   {ScriptInitiator}, clock + 1) :
        IsSome(p.redirectResponse) /\ MapHas(pending, p.requestId)}

\* C8 (as claimed): every request-sent that carries redirectResponse and whose
\* ID is in flight allocates nothing, appends the previous URL to the chain and
\* overwrites URL, method, headers, body and start time.
C8_RedirectCoalesces ==
    [][ \A p \in RedirectEvents :
          handleRequestWillBeSent(p)
             => RedirectCoalesced(p, MapGet(pending, p.requestId)) ]_vars

\* C8 (amended): the same, for the request-sent events whose URL matches no
\* exclude pattern; and a stored record shows the whole chain of its entry.
C8_RedirectCoalescesUnlessExcluded ==
    [][ /\ \A p \in RedirectEvents :
             (~shouldExclude(p.request.url) /\ handleRequestWillBeSent(p))
                => RedirectCoalesced(p, MapGet(pending, p.requestId))
        /\ \A r \in MapVals(requests') :
             redirectChain(heap'[r]) = heap'[r].entryChain ]_vars

\* a finalized record that went /old -> /new -> /old: its chain lists the two
\* earlier hops in arrival order and its URL is the last hop
C8_Witness ==
    \E r \in StoredRefs :
        /\ Len(redirectChain(heap[r])) = 2
        /\ redirectChain(heap[r])[1].url = "/old"
        /\ redirectChain(heap[r])[2].url = "/new"
        /\ heap[r].url = "/old"

\* C9 (as claimed): the chain of a finalized record is as long as the number
\* of redirect-bearing request-sent events delivered for its ID.
C9_ChainCountsRedirectEvents ==
    \A r \in StoredRefs : Len(redirectChain(heap[r])) = redirectsSeen[heap[r].id]

\* C9 (amended): the chain of a finalized record is as long as the number of
\* redirect-bearing request-sent events, not excluded, that were delivered for
\* its ID while the record was in flight.
C9_ChainCountsCoalescedHops ==
    \A r \in StoredRefs : Len(redirectChain(heap[r])) = heap[r].hops

\* a finalized record with one hop in its chain although two redirect-bearing
\* events were delivered for its ID
C9_Witness ==
    \E r \in StoredRefs :
        /\ Len(redirectChain(heap[r])) = 1
        /\ heap[r].hops = 1
        /\ redirectsSeen[heap[r].id] = 2

\* C10: once the preflight P and its target T are both finalized, P names T
\* and T names P, in whichever order the two request-sent events arrived.
C10_PairedInEveryArrivalOrder ==
    (MapHas(requests, P) /\ MapHas(requests, T))
       => /\ Get(getRequest(P)).preflightFor = Some(T)
          /\ Get(getRequest(T)).preflightRequestId = Some(P)

\* both are finalized and T's request-sent arrived after P was finalized
C10_Witness ==
    /\ MapHas(requests, P) /\ MapHas(requests, T)
    /\ Get(Get(getRequest(P)).endTime) < Get(getRequest(T)).startTime
    /\ Get(getRequest(T)).preflightRequestId = Some(P)

\* C11: for every two records A and B in the finalized store, A.preflightFor
\* is B's ID if and only if B.preflightRequestId is A's ID.
C11_PreflightLinksAgree ==
    \A a \in StoredRefs, b \in StoredRefs :
        (heap[a].preflightFor = Some(heap[b].id))
           <=> (heap[b].preflightRequestId = Some(heap[a].id))

\* C12: every record in the finalized store has duration = endTime - startTime.
C12_DurationIsEndMinusStart ==
    \A r \in StoredRefs :
        heap[r].duration = Some(Get(heap[r].endTime) - heap[r].startTime)

\* C13: a loading-failed for an in-flight ID commits the record in that step
\* and starts no body fetch: the in-flight set loses one entry and the record
\* is in the store under its ID; the status is unchanged, and the status text
\* becomes the event's error text when the status is still 0 and is unchanged
\* otherwise.
C13_LoadingFailedCommits ==
    [][ \A p \in LoadingFailedEvents(Ids, clock + 1) :
          (MapHas(pending, p.requestId) /\ handleLoadingFailed(p))
             => LET ref == MapGet(pending, p.requestId)
                IN  /\ pendingCount' = pendingCount - 1
                    /\ ~MapHas(pending', p.requestId)
                    /\ MapHas(requests', p.requestId)
                    /\ MapGet(requests', p.requestId) = ref
                    /\ fetches' = fetches
                    /\ heap'[ref].status = heap[ref].status
                    /\ heap'[ref].statusText =
                          IF heap[ref].status = 0 THEN p.errorText
                          ELSE heap[ref].statusText ]_vars

\* a record that failed after its response was received: it was committed
\* without loading-finished and keeps the status and text of the response
C13_Witness ==
    \E r \in StoredRefs :
        /\ heap[r].status = 404 /\ heap[r].statusText = "Not Found"
        /\ heap[r].responseSize = 0
        /\ IsSome(heap[r].endTime)

\* C14: a request-sent whose URL matches an exclude pattern leaves the
\* in-flight set, the store, the next index and the timestamp offset (and the
\* records themselves) unchanged; and no record in the in-flight set or the
\* store has a URL that matches an exclude pattern.
C14_ExcludedRequestIsDropped ==
    [][ /\ \A p \in RequestWillBeSentEvents(Ids, RequestShapes, RedirectResponses,
                                            {ScriptInitiator}, clock + 1) :
             (p.request.url \in ExcludedUrls /\ handleRequestWillBeSent(p))
                => UNCHANGED <<pending, requests, requestOrder, nextIndex,
                               timestampOffset, heap, fetches>>
        /\ \A r \in MapVals(pending') \cup MapVals(requests') :
             heap'[r].url \notin ExcludedUrls ]_vars

\* two redirect-bearing request-sent events were delivered for an ID whose
\* record, created by the first event, is still the first record and has no
\* hop: one of the two was dropped for its excluded URL
C14_Witness ==
    \E id \in Ids :
        /\ redirectsSeen[id] = 2
        /\ MapHas(pending, id)
        /\ LET o == heap[MapGet(pending, id)]
           IN  /\ o.index = 0 /\ o.hops = 0 /\ o.entryChain = <<>>
               /\ o.startTime = WallTimeAt(1) * 1000
        /\ nextIndex = 1

\* the record of closure f is in the store under its ID and no longer in flight
Committed(f) ==
    /\ MapHas(requests, f.requestId)
    /\ MapGet(requests, f.requestId) = f.ref
    /\ ~MapHas(pending, f.requestId)

\* C15: a body fetch started by loading-finished for an in-flight record leads
\* to the record being committed to the store and removed from the in-flight
\* set; and when the fetch settles with null or by rejecting, the record it
\* commits has no response body.
C15_SettledFetchCommits ==
    /\ \A f \in Closures : BagIn(f, fetches) ~> Committed(f)
    /\ [][ \A f \in BagToSet(fetches) :
             \A o \in {o \in FetchOutcomes : o.kind \in {"null", "reject"}} :
                settleBodyFetch(f, o, FALSE)
                   => /\ Committed(f)'
                      /\ heap'[f.ref].responseBody = None ]_vars

\* C16: a loading-finished for an in-flight record whose media type starts with
\* image/, video/ or audio/ or contains font or wasm starts no body fetch,
\* whether or not a callback is passed, and commits the record in that step
\* with no response body.
C16_BinaryBodyIsNotFetched ==
    [][ \A p \in LoadingFinishedEvents(Ids, clock + 1), cb \in BOOLEAN :
          ( /\ MapHas(pending, p.requestId)
            /\ heap[MapGet(pending, p.requestId)].mimeType \in
                  {"image/png", "video/mp4", "audio/mpeg", "font/woff2", "application/wasm"}
            /\ handleLoadingFinished(p, cb) )
             => LET ref == MapGet(pending, p.requestId)
                IN  /\ fetches' = fetches
                    /\ ~MapHas(pending', p.requestId)
                    /\ MapHas(requests', p.requestId)
                    /\ MapGet(requests', p.requestId) = ref
                    /\ heap'[ref].responseBody = None ]_vars

\* a record whose response changed from JSON to wasm after its body fetch was
\* started: the second loading-finished committed it, without a body, while
\* the fetch is still outstanding
C16_Witness ==
    \E f \in BagToSet(fetches) :
        /\ f.ref \in StoredRefs
        /\ heap[f.ref].mimeType = "application/wasm"
        /\ heap[f.ref].responseSize = 100
        /\ heap[f.ref].responseBody = None
        /\ heap[f.ref].fired = 1

\* C17: onRequestComplete has been called exactly once with every record that
\* is in the store, and never with a record that is still only in flight.
C17_CallbackFiresOnce ==
    /\ \A r \in StoredRefs : heap[r].fired = 1
    /\ \A r \in PendingRefs \ StoredRefs : heap[r].fired = 0

\* the state clear() leaves: nothing stored, nothing in flight, an empty
\* eviction queue, index counter 0 and no timestamp offset
Cleared ==
    /\ size = 0 /\ pendingCount = 0
    /\ requestOrder = <<>>
    /\ nextIndex = 0
    /\ timestampOffset = None

\* C18: clear() empties the store and the in-flight set and resets the index
\* counter and the timestamp offset; and a clear() of a state that a clear()
\* left changes nothing, so clear(); clear() leaves the state of one clear().
C18_ClearResetsAndIsIdempotent ==
    [][ clear => /\ Cleared'
                 /\ Cleared => UNCHANGED <<requests, requestOrder, pending, nextIndex,
                                           timestampOffset, heap, fetches>> ]_vars

\* clear() ran after two requests had been created and while a body fetch
\* was outstanding, and nothing has been captured since
C18_Witness ==
    /\ Cleared
    /\ nextRef >= 3
    /\ lastEvicted = None
    /\ staleRefs # {}
    /\ fetches # EmptyBag

\* the stored records a filter asks for, stated on each record by itself
Matching(filter) ==
    {r \in StoredRefs :
        \/ filter = None
        \/ LET f == Get(filter)
               o == heap[r]
           IN  /\ f.urlPattern = Some("OLD") => o.url = "/old"
               /\ f.urlPattern = Some("^/(new|track)$") => o.url \in {"/new", "/track"}
               /\ f.method = Some("get") => o.method = "GET"
               /\ f.method = Some("post") => o.method = "POST"
               /\ IsSome(f.statusMin) => o.status >= Get(f.statusMin)
               /\ IsSome(f.statusMax) => o.status <= Get(f.statusMax)
               /\ IsSome(f.resourceType) => o.resourceType = Get(f.resourceType)
               /\ IsSome(f.sinceTimestamp) => o.startTime >= Get(f.sinceTimestamp)}
Min(a, b) == IF a <= b THEN a ELSE b

\* C19: getRequests(filter) returns matching stored records only, each once,
\* in index order; without a limit it returns all n of them, and with a limit
\* L >= 0 it returns min(L, n) of them, none of which has a larger index than
\* a matching record that is left out.
C19_SortedThenLimited ==
    \A filter \in Filters :
        LET res == getRequests(filter)
            n == Cardinality(Matching(filter))
            limit == IF filter = None THEN None ELSE Get(filter).limit
        IN  /\ \A i \in 1..Len(res) : res[i] \in Matching(filter)
            /\ \A i, j \in 1..Len(res) :
                  i < j => res[i] # res[j] /\ heap[res[i]].index <= heap[res[j]].index
            /\ Len(res) = IF limit = None THEN n ELSE Min(Get(limit), n)
            /\ \A r \in Matching(filter) \ {res[i] : i \in 1..Len(res)} :
                  \A i \in 1..Len(res) : heap[res[i]].index <= heap[r].index

\* the actions recorded when correlateRequest was last called, and the window
\* the claim gives for a request that starts at startTime
RecordedActions ==
    {Get(correlation).actions[i] : i \in 1..Len(Get(correlation).actions)}
InWindow(action, startTime) ==
    /\ startTime - action.timestamp >= -10
    /\ startTime - action.timestamp <= maxCorrelationWindow
SelectingMethods == {"stack_trace", "timing_semantic", "timing_only"}

\* C20: when correlateRequest attributes a request by stack_trace,
\* timing_semantic or timing_only, the action it names is a recorded action
\* whose delta lies in [-10, maxCorrelationWindow]; and every action in that
\* window is eligible: a request with a click in its stack trace is attributed
\* by stack_trace when a click action is in the window, and a request without
\* a usable stack trace is attributed by timing when an action in the window
\* scores at least minConfidence (preflight requests first try their chain).
C20_WindowIsInclusive ==
    IsSome(correlation) =>
      LET request == Get(correlation).request
          result == Get(correlation).result
          selecting == IsSome(result) /\ Get(result).method \in SelectingMethods
          inWindow == {a \in RecordedActions : InWindow(a, request.startTime)}
          hasClickStack == IsSome(request.initiator.stack)
      IN  /\ selecting => Get(result).action \in inWindow
          /\ (request.initiator.type # "preflight" /\ hasClickStack
                 /\ \E a \in inWindow : a.type = "click")
                => selecting /\ Get(result).method = "stack_trace"
          /\ (request.initiator.type # "preflight"
                 /\ ~(hasClickStack /\ \E a \in inWindow : a.type = "click")
                 /\ \E a \in inWindow : computeScore(a, request) >= minConfidence)
                => selecting /\ Get(result).method # "stack_trace"
          /\ inWindow = {} => ~selecting

\* a request that starts exactly maxCorrelationWindow after the one recorded
\* action is attributed to it by timing
C20_Witness ==
    /\ IsSome(correlation)
    /\ IsSome(Get(correlation).result)
    /\ Get(Get(correlation).result).method = "timing_only"
    /\ Get(correlation).request.startTime
          - Get(Get(correlation).result).action.timestamp = maxCorrelationWindow

\* C21: layer 0 has precedence.  When the request's initiator is preflight and
\* the request it names is among the supplied requests and attributed to a
\* recorded action, correlateRequest returns that action with confidence 0.85
\* and method chain, whatever the request's stack trace and whatever actions
\* lie in its time window.
C21_PreflightInheritsFirst ==
    IsSome(correlation) =>
      LET request == Get(correlation).request
          allRequests == Get(correlation).allRequests
          result == Get(correlation).result
      IN  \A i \in 1..Len(allRequests) : \A a \in RecordedActions :
            (/\ request.initiator.type = "preflight"
             /\ request.initiator.requestId = Some(allRequests[i].id)
             /\ allRequests[i].correlatedActionId = Some(a.id))
            => result = Some([action |-> a, confidence |-> 850000000,
                              method |-> "chain"])

\* a preflight request with a click in its stack trace inherits the submit
\* action of the request it names, although a click action lies in its window
C21_Witness ==
    /\ IsSome(correlation)
    /\ Get(correlation).request.initiator.type = "preflight"
    /\ IsSome(Get(correlation).request.initiator.stack)
    /\ Get(correlation).request.startTime = 5000
    /\ IsSome(Get(correlation).result)
    /\ Get(Get(correlation).result).method = "chain"
    /\ Get(Get(correlation).result).confidence = 850000000
    /\ Get(Get(correlation).result).action.id = "a1"
    /\ Get(Get(correlation).result).action.type = "submit"
    /\ \E a \in RecordedActions : a.id = "a2" /\ a.type = "click"

\* the compatibility of a user event with an action type, and the confidence
\* of a stack-trace match at an async depth
Compatible(eventType, actionType) ==
    \/ eventType = "click" /\ actionType = "click"
    \/ eventType = "submit" /\ actionType \in {"submit", "navigate"}
    \/ eventType \in {"input", "change", "keydown"} /\ actionType = "type"
StackConfidence(d) ==
    IF 950000000 - 20000000 * d >= 850000000 THEN 950000000 - 20000000 * d
    ELSE 850000000

StackEligible(request) ==
    LET origin == IF request.initiator.stack = None THEN None
                  ELSE extractEventOrigin(Get(request.initiator.stack))
    IN  IF origin = None THEN {}
        ELSE {a \in RecordedActions :
                InWindow(a, request.startTime) /\ Compatible(Get(origin).eventType, a.type)}

\* C23: layers 2 and 3.  For a request that layers 0 and 1 do not decide (not
\* a preflight, no action selectable by its stack trace): the actions in the
\* window that score below minConfidence are discarded; if any remains, a
\* highest-scoring one is returned with its score as confidence, tagged
\* timing_semantic exactly when the score is at least 0.5 and timing_only
\* otherwise; if actions lie in the window but none remains, the result is
\* null.
C23_TimingLayers ==
    IsSome(correlation) =>
      LET request == Get(correlation).request
          result == Get(correlation).result
          inWindow == {a \in RecordedActions : InWindow(a, request.startTime)}
          remaining == {a \in inWindow : computeScore(a, request) >= options.minConfidence}
      IN  (request.initiator.type # "preflight" /\ StackEligible(request) = {}) =>
            /\ (inWindow # {} /\ remaining = {}) => result = None
            /\ remaining # {} =>
                  /\ IsSome(result)
                  /\ Get(result).action \in remaining
                  /\ Get(result).confidence = computeScore(Get(result).action, request)
                  /\ \A b \in remaining :
                        computeScore(b, request) <= Get(result).confidence
                  /\ Get(result).method =
                        IF Get(result).confidence >= 500000000
                        THEN "timing_semantic" ELSE "timing_only"

\* of a click on "Open menu" and a later-recorded submit of "Save changes",
\* both at the instant a POST starts, the submit scores higher (0.75 against
\* 0.5) and is returned as timing_semantic
C23_Witness ==
    /\ IsSome(correlation)
    /\ Len(Get(correlation).actions) = 2
    /\ Get(correlation).actions[1].type = "click"
    /\ Get(correlation).actions[1].targetDescription = "Open menu"
    /\ Get(correlation).request.startTime = 5000
    /\ Get(correlation).request.initiator.stack = None
    /\ IsSome(Get(correlation).result)
    /\ Get(Get(correlation).result).action.id = "a2"
    /\ Get(Get(correlation).result).method = "timing_semantic"
    /\ Get(Get(correlation).result).confidence = 750000000

\* C24: whatever minConfidence the correlator is constructed with, a match
\* that correlateRequest returns has a confidence of at least minConfidence,
\* by whichever layer it was found.
C24_NeverBelowMinConfidence ==
    (IsSome(correlation) /\ IsSome(Get(correlation).result))
        => Get(Get(correlation).result).confidence >= options.minConfidence

\* the supplied requests that are attributed to a recorded action, have a
\* known end time and ended 0 to 100 ms before the request starts
ChainCandidates ==
    LET request == Get(correlation).request
        allRequests == Get(correlation).allRequests
    IN  {i \in 1..Len(allRequests) :
           /\ IsSome(allRequests[i].correlatedActionId)
           /\ \E a \in RecordedActions : Some(a.id) = allRequests[i].correlatedActionId
           /\ IsSome(allRequests[i].endTime)
           /\ request.startTime - Get(allRequests[i].endTime) >= 0
           /\ request.startTime - Get(allRequests[i].endTime) <= 100}

\* C25: layer 4.  A match with method chain and confidence 0.5 is returned
\* only when no recorded action lies in the request's time window, and its
\* action is then the one that the latest-ended of the supplied requests that
\* are attributed to a recorded action and ended 0 to 100 ms (inclusive)
\* before the request's start is attributed to.
C25_TemporalChainIsLastResort ==
    IsSome(correlation) =>
      LET request == Get(correlation).request
          allRequests == Get(correlation).allRequests
          result == Get(correlation).result
          inWindow == {a \in RecordedActions : InWindow(a, request.startTime)}
      IN  (/\ IsSome(result)
           /\ Get(result).method = "chain"
           /\ Get(result).confidence = 500000000)
          => /\ inWindow = {}
             /\ \E i \in ChainCandidates :
                   /\ \A j \in ChainCandidates :
                         Get(allRequests[j].endTime) <= Get(allRequests[i].endTime)
                   /\ Some(Get(result).action.id) = allRequests[i].correlatedActionId

\* the supplied requests as request i of the last call finds them: those
\* before it as the call left them, itself and those after it as they were
\* when the call was made
SuppliedAt(i) ==
    LET refs == Get(correlation).allRequests
    IN  [j \in 1..Len(refs) |->
            IF j < i THEN heap[refs[j]] ELSE Get(correlation).heap[refs[j]]]

\* the requests whose best match, when the last call evaluates them, is the
\* action of the given ID
BestMatched(actionId) ==
    {i \in 1..Len(Get(correlation).allRequests) :
        LET match == correlateRequest(SuppliedAt(i)[i], SuppliedAt(i))
        IN  IsSome(match) /\ Get(match).action.id = actionId}

\* C26: correlateAction(actionId, requests) returns null exactly when the
\* action is not in the log or no supplied request's best match is that
\* action, and then it changes no request and no action.  Otherwise the
\* returned requests are exactly those whose best match is the action, each
\* once, in non-decreasing order of start time, each with correlatedActionId
\* = actionId, and the action's resultingRequestIds lists their IDs in that
\* order.
C26_CorrelateActionResult ==
    (IsSome(correlation) /\ Get(correlation).call = "correlateAction") =>
      LET c == Get(correlation)
          refs == c.allRequests
          known == \E i \in 1..Len(c.actions) : c.actions[i].id = c.actionId
          matched == BestMatched(c.actionId)
      IN  /\ c.result = None <=> (~known \/ matched = {})
          /\ c.result = None => heap = c.heap /\ actions = c.actions
          /\ c.result # None =>
                LET rs == Get(c.result).requests
                IN  /\ {rs[k] : k \in 1..Len(rs)} = {refs[i] : i \in matched}
                    /\ Len(rs) = Cardinality(matched)
                    /\ \A k, l \in 1..Len(rs) :
                          k < l => heap[rs[k]].startTime <= heap[rs[l]].startTime
                    /\ \A k \in 1..Len(rs) :
                          heap[rs[k]].correlatedActionId = Some(c.actionId)
                    /\ \A i \in 1..Len(actions) :
                          actions[i].id = c.actionId =>
                            actions[i].resultingRequestIds
                              = [k \in 1..Len(rs) |-> heap[rs[k]].id]

\* two requests supplied in the reverse order of their start times are both
\* attributed to the click and returned in the order of their start times
C26_Witness ==
    /\ IsSome(correlation)
    /\ Get(correlation).call = "correlateAction"
    /\ Get(correlation).actionId = "a1"
    /\ IsSome(Get(correlation).result)
    /\ Get(Get(correlation).result).requests = <<2, 1>>
    /\ heap[2].startTime < heap[1].startTime
    /\ actions[1].resultingRequestIds = <<"r2", "r1">>

\* the timestamp of the recorded action of an ID
TimestampOf(actionId) ==
    LET i == CHOOSE i \in 1..Len(actions) : actions[i].id = actionId
    IN  actions[i].timestamp

\* C27: correlateAll(requests) leaves every request that already has an
\* attribution as it is and returns it in no result; a request without one is
\* attributed exactly when it has a best match, to the action of that match,
\* and is then returned exactly once, in the result of that action; the
\* requests of each result are in non-decreasing order of start time, and the
\* results are in ascending order of their actions' timestamps.
C27_CorrelateAllResults ==
    (IsSome(correlation) /\ Get(correlation).call = "correlateAll") =>
      LET c == Get(correlation)
          refs == c.allRequests
          results == c.result
          Places(ref) == {<<i, k>> \in (1..Len(results)) \X (1..Len(refs)) :
                            k <= Len(results[i].requests) /\ results[i].requests[k] = ref}
      IN  /\ \A j \in 1..Len(refs) :
                IF IsSome(c.heap[refs[j]].correlatedActionId)
                THEN heap[refs[j]] = c.heap[refs[j]] /\ Places(refs[j]) = {}
                ELSE LET match == correlateRequest(SuppliedAt(j)[j], SuppliedAt(j))
                     IN  IF match = None
                         THEN heap[refs[j]] = c.heap[refs[j]] /\ Places(refs[j]) = {}
                         ELSE /\ heap[refs[j]].correlatedActionId
                                    = Some(Get(match).action.id)
                              /\ Cardinality(Places(refs[j])) = 1
                              /\ \A pl \in Places(refs[j]) :
                                    results[pl[1]].action = Get(match).action.id
          /\ \A i \in 1..Len(results) :
                /\ results[i].requests # <<>>
                /\ \A k, l \in 1..Len(results[i].requests) :
                      k < l => heap[results[i].requests[k]].startTime
                                 <= heap[results[i].requests[l]].startTime
          /\ \A i, j \in 1..Len(results) :
                i < j => /\ results[i].action # results[j].action
                         /\ TimestampOf(results[i].action) <= TimestampOf(results[j].action)

\* of two requests, the first is attributed to the click and the second to
\* the submit, which happened before the click: the submit's result comes
\* first
C27_Witness ==
    /\ IsSome(correlation)
    /\ Get(correlation).call = "correlateAll"
    /\ Len(Get(correlation).result) = 2
    /\ Get(correlation).result[1].action = "a2"
    /\ Get(correlation).result[2].action = "a1"
    /\ heap[1].correlatedActionId = Some("a1")
    /\ heap[2].correlatedActionId = Some("a2")
    /\ Get(correlation).heap[1].correlatedActionId = None

\* C28: over recordAction, correlateAction and correlateAll calls, the
\* attribution of a request is written at most once: once a request has an
\* action ID, no call changes its action ID, confidence or method.
C28_AttributionWrittenOnce ==
    [][\A ref \in 1..Len(heap) :
          IsSome(heap[ref].correlatedActionId) =>
            /\ heap'[ref].correlatedActionId = heap[ref].correlatedActionId
            /\ heap'[ref].correlationConfidence = heap[ref].correlationConfidence
            /\ heap'[ref].correlationMethod = heap[ref].correlationMethod]_vars

\* the request of a group that has the given ID (the IDs of a group differ)
GroupMember(group, id) == group[CHOOSE i \in 1..Len(group) : group[i].id = id]

\* C29: detectChains emits at most one auth_flow chain for a group.  The
\* first ID of an emitted chain is that of a POST with an auth-like URL, a 2xx
\* status and a token in its body; the chain has at least one more ID, and
\* every ID after the first is that of a request of the group that started
\* strictly after the POST and whose Authorization header contains the first
\* 20 characters of the token.
C29_AuthFlowChain ==
    (IsSome(correlation) /\ Get(correlation).call = "detectChains") =>
      LET group == Get(correlation).requests
          chains == Get(correlation).result
          flows == {i \in 1..Len(chains) : chains[i].type = "auth_flow"}
      IN  /\ Cardinality(flows) <= 1
          /\ \A i \in flows :
                LET ids == chains[i].requestIds
                    authReq == GroupMember(group, ids[1])
                    token == tokenValue(Get(authReq.responseBody))
                IN  /\ Len(ids) >= 2
                    /\ \A k \in 1..Len(ids) : \E j \in 1..Len(group) : group[j].id = ids[k]
                    /\ authReq.method = "POST"
                    /\ AuthLikeUrl(authReq.url)
                    /\ authReq.status >= 200 /\ authReq.status <= 299
                    /\ IsSome(authReq.responseBody) /\ IsSome(token)
                    /\ \A k \in 2..Len(ids) :
                          LET r == GroupMember(group, ids[k])
                          IN  /\ r.startTime > authReq.startTime
                              /\ Includes(authHeader(r), Substring(Get(token), 20))

\* a request that carries only the first 20 characters of the 21-character
\* token follows the POST that returned the token as access_token: the one
\* chain of the group is their auth flow
C29_Witness ==
    /\ IsSome(correlation)
    /\ Get(correlation).call = "detectChains"
    /\ Len(Get(correlation).requests) = 2
    /\ Get(correlation).requests[2].url = "https://api.example.com/OAuth"
    /\ Get(correlation).requests[1].requestHeaders
          = [Authorization |-> Bearer(Substring(BearerToken, 20))]
    /\ Get(correlation).result = <<[type |-> "auth_flow", requestIds |-> <<"g2", "g1">>]>>

\* the wait has completed; it completed before its timeout had elapsed
Resolved == IsSome(driver.call) /\ Get(driver.call).resolved
TimeoutElapsed ==
    /\ IsSome(driver.call)
    /\ driver.now - Get(driver.call).startTime >= Get(driver.call).timeoutMs
\* the in-flight count is zero and has been zero for the quiet period of the
\* wait, all of it after the wait began
ZeroThroughoutQuietPeriod ==
    /\ IsSome(driver.call)
    /\ driver.pendingCount = 0
    /\ driver.now - Get(driver.call).startTime >= Get(driver.call).quietPeriodMs
    /\ \/ driver.busyAt = None
       \/ driver.now - Get(driver.busyAt) >= Get(driver.call).quietPeriodMs

\* C30: the wait for network quiescence completes when the in-flight count has
\* been zero continuously for the quiet period; it always completes once the
\* timeout has elapsed, even if the count never reaches zero; and when it has
\* completed before the timeout, the count was zero throughout the quiet
\* period that preceded the completion.
C30_WaitForNetworkQuiet ==
    /\ ZeroThroughoutQuietPeriod ~> Resolved
    /\ TimeoutElapsed ~> Resolved
    /\ [](Resolved /\ ~TimeoutElapsed => ZeroThroughoutQuietPeriod)

\* C31: between two clear() calls the timestamp offset is written once: the
\* first request-sent that is not excluded sets it to wallTime - timestamp,
\* nothing else sets it, and once it is set no request-sent (new request or
\* redirect), response-received, loading-finished or loading-failed changes
\* it.
C31_OffsetWrittenOnce ==
    [][ /\ \A p \in OffsetRequestWillBeSentEvents(clock + 1) :
              (timestampOffset = None /\ ~shouldExclude(p.request.url)
                  /\ handleRequestWillBeSent(p))
                 => timestampOffset' = Some(p.wallTime - p.timestamp)
        /\ (timestampOffset = None /\ timestampOffset' # None)
              => \E p \in OffsetRequestWillBeSentEvents(clock + 1) :
                    /\ ~shouldExclude(p.request.url)
                    /\ handleRequestWillBeSent(p)
        /\ (timestampOffset # None /\ ~clear)
              => timestampOffset' = timestampOffset ]_vars

\* the offset was taken from a request-sent when the wall clock was 100 s
\* ahead; the last event was a request-sent (a new request or a redirect) for
\* which the wall clock is 101 s ahead
C31_Witness ==
    /\ timestampOffset = Some(100)
    /\ \E r \in PendingRefs : heap[r].startTime = (clock + 101) * 1000

\* the wall-clock times, in ms, of the instants of the monotonic clock so far
\* under the offset the event source has; the raw readings of that clock, in ms
ProjectedTimes == {WallTimeAt(t) * 1000 : t \in 0..clock}
RawTimes == {t * 1000 : t \in 0..clock}

\* C32: whenever a record is in flight the timestamp offset is known, and the
\* response time and the end time of every record are wall-clock times
\* projected with the offset, never raw readings of the monotonic clock,
\* after any sequence of events and clear() calls.
C32_NoRawTimestampStored ==
    /\ pendingCount > 0 => timestampOffset # None
    /\ \A r \in DOMAIN heap :
          /\ IsSome(heap[r].responseTime)
                => /\ Get(heap[r].responseTime) \in ProjectedTimes
                   /\ Get(heap[r].responseTime) \notin RawTimes
          /\ IsSome(heap[r].endTime)
                => /\ Get(heap[r].endTime) \in ProjectedTimes
                   /\ Get(heap[r].endTime) \notin RawTimes

\* a record created after a clear() (the second object, with index 0 again)
\* is stored with a response time and an end time
C32_Witness ==
    \E r \in StoredRefs :
        /\ r >= 2 /\ heap[r].index = 0
        /\ IsSome(heap[r].responseTime)
        /\ IsSome(heap[r].endTime)

\* the object k parent hops away from node (0: there is none)
RECURSIVE NodeAfter(_, _, _)
NodeAfter(stack, node, k) ==
    IF k = 0 \/ node = 0 THEN node
    ELSE NodeAfter(stack, stack.parent[node], k - 1)
IsUserEvent(stack, node) ==
    /\ node # 0
    /\ IsSome(stack.description[node])
    /\ toLowerCase(Get(stack.description[node])) \in USER_EVENT_TYPES
\* the parent chain of object 1 ends: the descriptions along it, innermost first
Acyclic(stack) == NodeAfter(stack, 1, Len(stack.parent)) = 0
RECURSIVE ChainOf(_, _)
ChainOf(stack, node) ==
    IF node = 0 THEN <<>>
    ELSE <<stack.description[node]>> \o ChainOf(stack, stack.parent[node])
WalkReturned == IsSome(walk) /\ Get(walk).returned

\* C34: extractEventOrigin returns for every stack, one whose parent links
\* form a cycle included, after reading at most 50 objects; it returns the
\* first object on the parent chain, the given one at depth 0, whose
\* description is a user-event name in any letter case, with asyncDepth the
\* number of parent hops to it, and null when none of the first 50 is one.
C34_ExtractEventOriginTerminates ==
    /\ IsSome(walk) ~> WalkReturned
    /\ [](IsSome(walk) => Get(walk).inspected <= 50)
    /\ [](WalkReturned =>
            LET stack == Get(walk).stack
                hits == {k \in 0..49 : IsUserEvent(stack, NodeAfter(stack, 1, k))}
            IN  /\ Get(walk).result =
                      IF hits = {} THEN None
                      ELSE LET k == CHOOSE k \in hits : \A j \in hits : k <= j
                           IN  Some([eventType |->
                                        toLowerCase(Get(stack.description[
                                            NodeAfter(stack, 1, k)])),
                                     asyncDepth |-> k])
                /\ Acyclic(stack)
                      => Get(walk).result = extractEventOrigin(ChainOf(stack, 1)))

\* the call has returned null for a stack of two objects that are each
\* other's parent, after reading 50 descriptions
C34_Witness ==
    /\ WalkReturned
    /\ Get(walk).stack.parent = <<2, 1>>
    /\ Get(walk).result = None
    /\ Get(walk).inspected = 50

\* the state of the ingester, with the records themselves (which carry the
\* count of the onRequestComplete calls made with them) and the outstanding
\* body fetches
IngesterUnchanged ==
    UNCHANGED <<pending, requests, requestOrder, nextIndex, timestampOffset,
                heap, fetches>>

\* C33: a response-received, loading-finished or loading-failed event whose
\* request ID is not in the in-flight set changes nothing of the ingester (the
\* in-flight set, the store, the eviction order, the next index, the timestamp
\* offset, the records), starts no body fetch and calls onRequestComplete
\* for no record.
C33_UnknownIdIsDropped ==
    [][ /\ \A p \in ResponseReceivedEvents(Ids, ResponseShapes, clock + 1) :
              (~MapHas(pending, p.requestId) /\ handleResponseReceived(p))
                 => IngesterUnchanged
        /\ \A p \in LoadingFinishedEvents(Ids, clock + 1), cb \in BOOLEAN :
              (~MapHas(pending, p.requestId) /\ handleLoadingFinished(p, cb))
                 => IngesterUnchanged
        /\ \A p \in LoadingFailedEvents(Ids, clock + 1) :
              (~MapHas(pending, p.requestId) /\ handleLoadingFailed(p))
                 => IngesterUnchanged ]_vars

\* one request-sent was delivered first and every event after it named an
\* ID that is not in flight: the record is as the request-sent left it
C33_Witness ==
    /\ clock = MaxClockUnknown
    /\ nextIndex = 1 /\ size = 0 /\ fetches = EmptyBag
    /\ MapHas(pending, Known)
    /\ heap[MapGet(pending, Known)].startTime = WallTimeAt(1) * 1000
    /\ heap[MapGet(pending, Known)].responseTime = None

\* C35: when several compatible actions in the window are at the same
\* absolute time delta from the request, and none is nearer, layer 1 returns
\* the one of them that was recorded first.
C35_TieGoesToEarliestRecorded ==
    IsSome(correlation) =>
      LET request == Get(correlation).request
          result == Get(correlation).result
          log == Get(correlation).actions
          eligible == StackEligible(request)
          nearest == {i \in 1..Len(log) :
                        /\ log[i] \in eligible
                        /\ \A b \in eligible :
                              Abs(request.startTime - log[i].timestamp)
                                 <= Abs(request.startTime - b.timestamp)}
      IN  Cardinality(nearest) >= 2 =>
             /\ IsSome(result)
             /\ Get(result).method = "stack_trace"
             /\ Get(result).action = log[CHOOSE i \in nearest : \A j \in nearest : i <= j]

\* two clicks were recorded, the first 20 ms after the second; a request
\* whose stack leads to a click starts midway between them and is matched
\* to the click recorded first
C35_Witness ==
    /\ IsSome(correlation)
    /\ Len(Get(correlation).actions) = 2
    /\ Get(correlation).actions[1].type = "click"
    /\ Get(correlation).actions[1].timestamp = 5020
    /\ Get(correlation).actions[2].type = "click"
    /\ Get(correlation).actions[2].timestamp = 5000
    /\ Get(correlation).request.startTime = 5010
    /\ IsSome(Get(correlation).result)
    /\ Get(Get(correlation).result).method = "stack_trace"
    /\ Get(Get(correlation).result).action.id = "a1"

StartsBefore(reqs, i, j) ==
    \/ reqs[i].startTime < reqs[j].startTime
    \/ reqs[i].startTime = reqs[j].startTime /\ i < j
Neighbours(reqs, i, j) ==
    /\ StartsBefore(reqs, i, j)
    /\ ~ \E k \in 1..Len(reqs) : StartsBefore(reqs, i, k) /\ StartsBefore(reqs, k, j)
FiresRightAfter(reqs, i, j) ==
    /\ Neighbours(reqs, i, j)
    /\ IsSome(reqs[i].endTime)
    /\ reqs[j].startTime - Get(reqs[i].endTime) \in 0..50
SequentialChainsOf(result) == SelectSeq(result, LAMBDA c : c.type = "sequential")
C37_SequentialChains ==
    (IsSome(correlation) /\ Get(correlation).call = "detectChains") =>
        LET reqs == Get(correlation).requests
            chains == SequentialChainsOf(Get(correlation).result)
            expected == { <<reqs[i].id, reqs[j].id>> :
                            <<i, j>> \in { p \in (1..Len(reqs)) \X (1..Len(reqs)) :
                                              FiresRightAfter(reqs, p[1], p[2]) } }
        IN  /\ { chains[k].requestIds : k \in 1..Len(chains) } = expected
            /\ Len(chains) = Cardinality(expected)
            /\ \A k \in 1..Len(chains) : Len(chains[k].requestIds) = 2
            /\ Len(reqs) > 0 => Len(chains) <= Len(reqs) - 1
            /\ \A k, l \in 1..Len(chains) :
                  k < l => \E i, j \in 1..Len(reqs) :
                              /\ reqs[i].id = chains[k].requestIds[1]
                              /\ reqs[j].id = chains[l].requestIds[1]
                              /\ StartsBefore(reqs, i, j)

\* a group given out of start-time order with a gap of 50 ms (a chain), an
\* overlap (none) and, in another call, gaps of 0 and of 51 ms
C37_Witness ==
    /\ IsSome(correlation) /\ Get(correlation).call = "detectChains"
    /\ LET reqs == Get(correlation).requests
           chains == SequentialChainsOf(Get(correlation).result)
       IN  /\ Len(reqs) = 3 /\ Len(chains) = 1
           /\ reqs[1].startTime > reqs[2].startTime
           /\ \E i, j \in 1..3 :
                 /\ chains[1].requestIds = <<reqs[i].id, reqs[j].id>>
                 /\ reqs[j].startTime - Get(reqs[i].endTime) = 50
           /\ \E i, j \in 1..3 :
                 /\ Neighbours(reqs, i, j) /\ IsSome(reqs[i].endTime)
                 /\ reqs[j].startTime - Get(reqs[i].endTime) < 0

\* C38: after recordAction, correlateAction and correlateAll calls, the ID
\* of a request is among the resultingRequestIds of an action of the log
\* exactly when the request's correlatedActionId is that action's ID.
Listed(a, r) == \E k \in 1..Len(a.resultingRequestIds) : a.resultingRequestIds[k] = r.id
C38_AttributionSidesAgree ==
    \A i \in 1..Len(actions) : \A ref \in 1..Len(heap) :
        Listed(actions[i], heap[ref]) <=> heap[ref].correlatedActionId = Some(actions[i].id)

\* C39: what a navigate, click or type call returns is null or a correlation
\* result whose action is the action object this call created and recorded.
C39_ResultIsForOwnAction ==
    \A c \in 1..Len(manager.calls) :
        (manager.calls[c].returned /\ IsSome(manager.calls[c].result)) =>
            manager.calls[c].resultFor = c

\* C40: when a body fetch settles while the in-flight set holds, under the
\* fetch's request ID, another record than the one whose loading-finished
\* started the fetch (a later request-sent created it), that newer record is
\* still in flight under the ID afterwards, and only the fetch's own record is
\* committed.
C40_FetchCommitsOnlyItsRecord ==
    [][ \A f \in BagToSet(fetches) : \A o \in FetchOutcomes :
          ( /\ settleBodyFetch(f, o, FALSE)
            /\ MapHas(pending, f.requestId)
            /\ MapGet(pending, f.requestId) # f.ref )
          => /\ MapHas(pending', f.requestId)
             /\ MapGet(pending', f.requestId) = MapGet(pending, f.requestId)
             /\ MapHas(requests', f.requestId)
             /\ MapGet(requests', f.requestId) = f.ref ]_vars

====
